---------------------------- MODULE Spec2Model ----------------------------
(***************************************************************************)
(* A model of utils/parameterMapper.js: the ParameterMapper singleton, its *)
(* mapping table and conversion registries, and the operations             *)
(* mapParameters, handleNestedParameter, convertType, smartCaseConversion  *)
(* and addMapping, with the JavaScript semantics they rest on (property    *)
(* lookup through Object.prototype, truthiness, strict-mode property       *)
(* assignment, the Date constructor); and of the storage tools that call   *)
(* it (createBucket, deleteBucket, listBuckets, getObject, deleteObject,   *)
(* putObject with its three upload modes) as the protocol server's         *)
(* tools/call handler runs them, with utils/fileSystem.js and s3Client     *)
(* as their environment.                                                   *)
(***************************************************************************)
EXTENDS Integers, Sequences, FiniteSets, TLC

VARIABLES
    knownMappings,      \* this.knownMappings: own properties, source key -> target path
    dateParameters,     \* this.dateParameters: array of target keys
    booleanParameters,  \* this.booleanParameters: array of target keys
    heap,               \* the caller's nested objects, by identity
    pc,                 \* "idle" | "returned": where the (single-threaded) caller is
    call,               \* the call in hand on the singleton and its outcome
    lastAdd,            \* the arguments of the latest addMapping call
    adds,               \* number of addMapping calls made so far
    addAt,              \* "none" | "table": how far the addMapping that runs has got
    tool,               \* the tool invocation in flight: its position, what it
                        \* has called so far and its result
    export,             \* the exportTableToStorage call in flight, with the MySQL
                        \* process it spawned and the promise of queryMySQLMCP
    listing,            \* the listDirectory call in hand and its result
    bridge              \* the HTTP bridge's requests in flight and their MCP clients

vars == <<knownMappings, dateParameters, booleanParameters, heap, pc, call, lastAdd,
          adds, addAt, tool, export, listing, bridge>>

-----------------------------------------------------------------------------
(* Bounds of the model. *)

MaxEntries == 2     \* entries of one input map
MaxAdds == 1        \* addMapping calls in one run
MaxFiles == 2       \* files getAllFiles finds in one directory
MaxLevels == 5      \* levels of the directory tree that listDirectory walks
MaxRequests == 2    \* requests the HTTP bridge handles at a time
MaxChunks == 2      \* chunks of one streamed answer

-----------------------------------------------------------------------------
(* JavaScript values, tagged by type. *)

Undefined == [t |-> "undefined", v |-> "undefined"]
Null == [t |-> "null", v |-> "null"]
Bool(b) == [t |-> "boolean", v |-> b]
Str(s) == [t |-> "string", v |-> s]
Num(n) == [t |-> "number", v |-> n]
\* a plain object created during the call and held only by the result
Obj(fields) == [t |-> "object", v |-> fields]
\* a reference to an object the caller owns (a nested value of the input)
Ref(o) == [t |-> "ref", v |-> o]
\* a builtin function inherited from Object.prototype
Fn(name) == [t |-> "function", v |-> name]
\* a Date object: its time value (day * MsPerDay + ms, or NaN when ~valid)
\* and the own properties later set on it
DateObj(valid, day, ms) ==
    [t |-> "Date", v |-> [valid |-> valid, day |-> day, ms |-> ms, props |-> <<>>]]
InvalidDate == DateObj(FALSE, 0, 0)
TypeError(msg) == [t |-> "TypeError", v |-> msg]

MsPerDay == 86400000

\* ToBoolean
Truthy(x) ==
    CASE x.t \in {"undefined", "null"} -> FALSE
      [] x.t = "boolean" -> x.v
      [] x.t = "string" -> x.v # ""
      [] x.t = "number" -> x.v # 0
      [] OTHER -> TRUE

\* The function-valued members every plain object inherits from Object.prototype.
ObjectPrototypeKeys ==
    {"constructor", "toString", "toLocaleString", "valueOf", "hasOwnProperty",
     "isPrototypeOf", "propertyIsEnumerable"}

\* obj[key] on a plain object whose own properties are `own`
Get(own, key) ==
    IF key \in DOMAIN own THEN own[key]
    ELSE IF key \in ObjectPrototypeKeys THEN Fn(key)
    ELSE Undefined

\* obj[key] = value on own properties
Put(own, key, value) ==
    [k \in DOMAIN own \cup {key} |-> IF k = key THEN value ELSE own[k]]

\* Object.assign(target, source) on own properties
Assign(target, source) ==
    [k \in DOMAIN target \cup DOMAIN source |->
        IF k \in DOMAIN source THEN source[k] ELSE target[k]]

\* Array.prototype.includes
ArrIncludes(arr, x) == \E i \in 1..Len(arr) : arr[i] = x

-----------------------------------------------------------------------------
(* String primitives. *)

charAt(s, i) == IF i + 1 <= Len(s) THEN SubSeq(s, i + 1, i + 1) ELSE ""
slice(s, i) == SubSeq(s, i + 1, Len(s))
StrIncludes(s, c) == \E i \in 1..Len(s) : SubSeq(s, i, i) = c

UpperOf ==
    [c \in {"a","b","c","d","e","f","g","h","i","j","k","l","m",
            "n","o","p","q","r","s","t","u","v","w","x","y","z"} |->
        CASE c = "a" -> "A" [] c = "b" -> "B" [] c = "c" -> "C" [] c = "d" -> "D"
          [] c = "e" -> "E" [] c = "f" -> "F" [] c = "g" -> "G" [] c = "h" -> "H"
          [] c = "i" -> "I" [] c = "j" -> "J" [] c = "k" -> "K" [] c = "l" -> "L"
          [] c = "m" -> "M" [] c = "n" -> "N" [] c = "o" -> "O" [] c = "p" -> "P"
          [] c = "q" -> "Q" [] c = "r" -> "R" [] c = "s" -> "S" [] c = "t" -> "T"
          [] c = "u" -> "U" [] c = "v" -> "V" [] c = "w" -> "W" [] c = "x" -> "X"
          [] c = "y" -> "Y" [] c = "z" -> "Z"]

\* String.prototype.toUpperCase on a string of at most one character
toUpperCase(c) == IF c \in DOMAIN UpperOf THEN UpperOf[c] ELSE c

RECURSIVE split(_, _)
\* String.prototype.split with a one-character separator
split(s, sep) ==
    IF ~StrIncludes(s, sep) THEN <<s>>
    ELSE LET i == CHOOSE j \in 1..Len(s) :
                    /\ SubSeq(s, j, j) = sep
                    /\ \A k \in 1..(j - 1) : SubSeq(s, k, k) # sep
         IN  <<SubSeq(s, 1, i - 1)>> \o split(SubSeq(s, i + 1, Len(s)), sep)

-----------------------------------------------------------------------------
(* The Date constructor. *)

Digits == {"0", "1", "2", "3", "4", "5", "6", "7", "8", "9"}
DigitOf ==
    [c \in Digits |->
        CASE c = "0" -> 0 [] c = "1" -> 1 [] c = "2" -> 2 [] c = "3" -> 3
          [] c = "4" -> 4 [] c = "5" -> 5 [] c = "6" -> 6 [] c = "7" -> 7
          [] c = "8" -> 8 [] c = "9" -> 9]

RECURSIVE ToInt(_)
\* the decimal number a string of digits denotes
ToInt(s) ==
    IF Len(s) = 0 THEN 0
    ELSE 10 * ToInt(SubSeq(s, 1, Len(s) - 1)) + DigitOf[SubSeq(s, Len(s), Len(s))]

AllDigits(s) == \A i \in 1..Len(s) : SubSeq(s, i, i) \in Digits

IsLeap(y) == (y % 4 = 0 /\ y % 100 # 0) \/ y % 400 = 0
DaysInMonth(y, m) ==
    CASE m \in {1, 3, 5, 7, 8, 10, 12} -> 31
      [] m \in {4, 6, 9, 11} -> 30
      [] OTHER -> IF IsLeap(y) THEN 29 ELSE 28

\* days from 1970-01-01 to the civil date y-m-d (proleptic Gregorian)
DaysFromCivil(y, m, d) ==
    LET yy == IF m <= 2 THEN y - 1 ELSE y
        era == yy \div 400
        yoe == yy - era * 400
        mp == (m + 9) % 12
        doy == (153 * mp + 2) \div 5 + d - 1
        doe == yoe * 365 + yoe \div 4 - yoe \div 100 + doy
    IN  era * 146097 + doe - 719468

\* Date.parse on a string: the ISO date-only form YYYY-MM-DD is UTC midnight
\* of that day; every other string of the model's domain is unparseable (NaN).
DateParse(s) ==
    IF /\ Len(s) = 10
       /\ SubSeq(s, 5, 5) = "-" /\ SubSeq(s, 8, 8) = "-"
       /\ AllDigits(SubSeq(s, 1, 4)) /\ AllDigits(SubSeq(s, 6, 7))
       /\ AllDigits(SubSeq(s, 9, 10))
    THEN LET y == ToInt(SubSeq(s, 1, 4))
             m == ToInt(SubSeq(s, 6, 7))
             d == ToInt(SubSeq(s, 9, 10))
         IN  IF m \in 1..12 /\ d \in 1..DaysInMonth(y, m)
             THEN DateObj(TRUE, DaysFromCivil(y, m, d), 0)
             ELSE InvalidDate
    ELSE InvalidDate

\* new Date(value): never throws; an unparseable value gives an Invalid Date
NewDate(value) ==
    CASE value.t = "string" -> DateParse(value.v)
      [] value.t = "boolean" -> DateObj(TRUE, 0, IF value.v THEN 1 ELSE 0)
      [] value.t = "number" -> DateObj(TRUE, value.v \div MsPerDay, value.v % MsPerDay)
      [] value.t = "null" -> DateObj(TRUE, 0, 0)
      [] value.t = "Date" -> DateObj(value.v.valid, value.v.day, value.v.ms)
      [] OTHER -> InvalidDate  \* undefined; an object converts to "[object Object]"

-----------------------------------------------------------------------------
(* The ParameterMapper instance: `self` is the record of its three fields. *)

\* constructor: this.knownMappings (a repeated key of the literal keeps one entry)
InitialMappings ==
       "bucketName" :> "Bucket"
    @@ "fileName" :> "Key"
    @@ "fileContent" :> "Body"
    @@ "objectLockEnabledForBucket" :> "ObjectLockEnabledForBucket"
    @@ "acl" :> "ACL"
    @@ "locationConstraint" :> "CreateBucketConfiguration.LocationConstraint"
    @@ "objectOwnership" :> "ObjectOwnership"
    @@ "ifMatch" :> "IfMatch"
    @@ "ifModifiedSince" :> "IfModifiedSince"
    @@ "ifNoneMatch" :> "IfNoneMatch"
    @@ "ifUnmodifiedSince" :> "IfUnmodifiedSince"
    @@ "range" :> "Range"
    @@ "responseCacheControl" :> "ResponseCacheControl"
    @@ "responseContentType" :> "ResponseContentType"
    @@ "responseContentDisposition" :> "ResponseContentDisposition"
    @@ "responseContentEncoding" :> "ResponseContentEncoding"
    @@ "responseContentLanguage" :> "ResponseContentLanguage"
    @@ "responseExpires" :> "ResponseExpires"
    @@ "versionId" :> "VersionId"
    @@ "sseCustomerAlgorithm" :> "SSECustomerAlgorithm"
    @@ "sseCustomerKey" :> "SSECustomerKey"
    @@ "sseCustomerKeyMD5" :> "SSECustomerKeyMD5"
    @@ "requestPayer" :> "RequestPayer"
    @@ "partNumber" :> "PartNumber"
    @@ "expectedBucketOwner" :> "ExpectedBucketOwner"
    @@ "checksumMode" :> "ChecksumMode"
    @@ "cacheControl" :> "CacheControl"
    @@ "contentDisposition" :> "ContentDisposition"
    @@ "contentEncoding" :> "ContentEncoding"
    @@ "contentLanguage" :> "ContentLanguage"
    @@ "contentLength" :> "ContentLength"
    @@ "contentMD5" :> "ContentMD5"
    @@ "contentType" :> "ContentType"
    @@ "checksumAlgorithm" :> "ChecksumAlgorithm"
    @@ "checksumCRC32" :> "ChecksumCRC32"
    @@ "checksumCRC32C" :> "ChecksumCRC32C"
    @@ "checksumSHA1" :> "ChecksumSHA1"
    @@ "checksumSHA256" :> "ChecksumSHA256"
    @@ "expires" :> "Expires"
    @@ "grantFullControl" :> "GrantFullControl"
    @@ "grantRead" :> "GrantRead"
    @@ "grantReadACP" :> "GrantReadACP"
    @@ "grantWriteACP" :> "GrantWriteACP"
    @@ "metadata" :> "Metadata"
    @@ "serverSideEncryption" :> "ServerSideEncryption"
    @@ "storageClass" :> "StorageClass"
    @@ "websiteRedirectLocation" :> "WebsiteRedirectLocation"
    @@ "sseKMSKeyId" :> "SSEKMSKeyId"
    @@ "sseKMSEncryptionContext" :> "SSEKMSEncryptionContext"
    @@ "bucketKeyEnabled" :> "BucketKeyEnabled"
    @@ "tagging" :> "Tagging"
    @@ "objectLockMode" :> "ObjectLockMode"
    @@ "objectLockRetainUntilDate" :> "ObjectLockRetainUntilDate"
    @@ "objectLockLegalHoldStatus" :> "ObjectLockLegalHoldStatus"
    @@ "maxBuckets" :> "MaxBuckets"
    @@ "continuationToken" :> "ContinuationToken"
    @@ "prefix" :> "Prefix"
    @@ "bucketRegion" :> "BucketRegion"
    @@ "mfa" :> "MFA"
    @@ "bypassGovernanceRetention" :> "BypassGovernanceRetention"

\* constructor: this.dateParameters
InitialDateParameters ==
    <<"IfModifiedSince", "IfUnmodifiedSince", "ResponseExpires", "Expires",
      "ObjectLockRetainUntilDate">>

\* constructor: this.booleanParameters
InitialBooleanParameters == <<"ObjectLockEnabledForBucket", "BucketKeyEnabled">>

Self == [knownMappings |-> knownMappings,
         dateParameters |-> dateParameters,
         booleanParameters |-> booleanParameters]

\* this.knownMappings[key]: an own entry, else what Object.prototype gives
LookupMapping(self, key) ==
    IF key \in DOMAIN self.knownMappings THEN Str(self.knownMappings[key])
    ELSE IF key \in ObjectPrototypeKeys THEN Fn(key)
    ELSE Undefined

\* a convertType whose boolean rule is general truthiness
convertType_Truthy(self, key, value) ==
    IF ArrIncludes(self.dateParameters, key) THEN NewDate(value)
    ELSE IF ArrIncludes(self.booleanParameters, key) THEN Bool(Truthy(value))
    ELSE value

\* convertType(key, value)
convertType(self, key, value) ==
    IF ArrIncludes(self.dateParameters, key) THEN NewDate(value)
    ELSE IF ArrIncludes(self.booleanParameters, key)
         THEN Bool(value = Bool(TRUE) \/ value = Str("true"))
         ELSE value

\* smartCaseConversion(camelCaseKey)
smartCaseConversion(camelCaseKey) ==
    toUpperCase(charAt(camelCaseKey, 0)) \o slice(camelCaseKey, 1)

\* The loop state of mapParameters: result, unmappedParams, the caller's heap,
\* and the exception thrown, if any.
Throw(st, err) == [st EXCEPT !.thrown = TRUE, !.error = err]

\* a nested store that writes the child at the top level of the result
NestedStore_Flat(st, parent, child, value) ==
    [st EXCEPT !.result = Put(@, child, value)]

\* handleNestedParameter, the two lines under `parts.length === 2`: create the
\* parent when result[parent] is falsy, then result[parent][child] = value. The
\* class body is strict mode code, so setting a property on a primitive throws.
NestedStore(st, parent, child, value) ==
    LET r1 == IF ~Truthy(Get(st.result, parent))
              THEN Put(st.result, parent, Obj(<<>>))
              ELSE st.result
        target == Get(r1, parent)
    IN  CASE target.t = "object" ->
               [st EXCEPT !.result = Put(r1, parent, Obj(Put(target.v, child, value)))]
          [] target.t = "ref" ->
               [st EXCEPT !.result = r1,
                          !.heap = [@ EXCEPT ![target.v] = Put(@, child, value)]]
          [] target.t = "Date" ->
               [st EXCEPT !.result = Put(r1, parent,
                   [target EXCEPT !.v.props = Put(@, child, value)])]
          [] target.t = "function" ->
               \* an inherited builtin: the property lands on the shared function
               [st EXCEPT !.result = r1]
          [] OTHER ->
               Throw(st, TypeError("Cannot create property on primitive"))

\* a handleNestedParameter that runs the child through convertType
handleNestedParameter_Converts(st, mappedKey, value) ==
    LET parts == split(mappedKey, ".") IN
    IF Len(parts) # 2 THEN st
    ELSE NestedStore(st, parts[1], parts[2],
                     IF ArrIncludes(dateParameters, parts[2]) THEN NewDate(value)
                     ELSE value)

\* handleNestedParameter(result, mappedKey, value)
handleNestedParameter(st, mappedKey, value) ==
    LET parts == split(mappedKey, ".") IN
    IF Len(parts) # 2 THEN st
    ELSE NestedStore(st, parts[1], parts[2], value)

\* the loop body of mapParameters for a value that is neither undefined nor null
MapValue(self, st, key, value) ==
    LET mappedKey == LookupMapping(self, key) IN
    IF Truthy(mappedKey)
    THEN IF mappedKey.t # "string"
         THEN Throw(st, TypeError("mappedKey.includes is not a function"))
         ELSE IF StrIncludes(mappedKey.v, ".")
              THEN handleNestedParameter(st, mappedKey.v, value)
              ELSE [st EXCEPT !.result =
                      Put(@, mappedKey.v, convertType(self, mappedKey.v, value))]
    ELSE [st EXCEPT !.unmappedParams = Put(@, smartCaseConversion(key), value)]

\* a loop that skips every falsy value (`if (!value) continue`)
MapEntry_DropsFalsy(self, st, key, value) ==
    IF st.thrown THEN st
    ELSE IF ~Truthy(value) THEN st
    ELSE MapValue(self, st, key, value)

\* a loop that skips undefined only
MapEntry_KeepsNull(self, st, key, value) ==
    IF st.thrown THEN st
    ELSE IF value = Undefined THEN st
    ELSE MapValue(self, st, key, value)

\* one iteration of the for loop of mapParameters
MapEntry(self, st, key, value) ==
    IF st.thrown THEN st
    ELSE IF value = Undefined \/ value = Null THEN st
    ELSE MapValue(self, st, key, value)

RECURSIVE MapLoop(_, _, _, _)
\* the for loop over Object.entries(inputParams), from entry i on
MapLoop(self, st, inputParams, i) ==
    IF i > Len(inputParams) THEN st
    ELSE MapLoop(self, MapEntry(self, st, inputParams[i][1], inputParams[i][2]),
                 inputParams, i + 1)

\* mapParameters(inputParams), called with the caller's heap h: the instance
\* and the heap after the call, and the value returned or the error thrown.
\* The console.log calls only read: JSON.stringify prints an Invalid Date as
\* null and does not throw on these values.
mapParameters(self, inputParams, h) ==
    LET st0 == [result |-> <<>>, unmappedParams |-> <<>>, heap |-> h,
                thrown |-> FALSE, error |-> Undefined]
        st == MapLoop(self, st0, inputParams, 1)
    IN  [self |-> self,
         heap |-> st.heap,
         outcome |-> IF st.thrown
                     THEN [kind |-> "throw", value |-> st.error]
                     ELSE [kind |-> "return",
                           value |-> Obj(Assign(st.result, st.unmappedParams))]]

\* an addMapping that sets the registry of `type` to the new target alone
addMapping_Replaces(self, camelCase, pascalCase, type) ==
    [knownMappings |-> Put(self.knownMappings, camelCase, pascalCase),
     dateParameters |->
        IF type = "date" THEN <<pascalCase>> ELSE self.dateParameters,
     booleanParameters |->
        IF type = "boolean" THEN <<pascalCase>> ELSE self.booleanParameters]

\* addMapping(camelCase, pascalCase, type): type "none" is the default null
addMapping(self, camelCase, pascalCase, type) ==
    [knownMappings |-> Put(self.knownMappings, camelCase, pascalCase),
     dateParameters |->
        IF type = "date" THEN Append(self.dateParameters, pascalCase)
        ELSE self.dateParameters,
     booleanParameters |->
        IF type = "date" THEN self.booleanParameters
        ELSE IF type = "boolean" THEN Append(self.booleanParameters, pascalCase)
        ELSE self.booleanParameters]

-----------------------------------------------------------------------------
(* The tools' parameters: `arguments` of a tools/call request, an object    *)
(* (its own entries, in order) or undefined when the request has none.      *)

Params(entries) == [t |-> "params", v |-> entries]

\* a field the request leaves out
Absent == [t |-> "absent", v |-> "absent"]

RECURSIVE Present(_)
\* the object literal of the fields that are given
Present(s) ==
    IF s = <<>> THEN <<>>
    ELSE IF Head(s)[2] = Absent THEN Present(Tail(s))
         ELSE <<Head(s)>> \o Present(Tail(s))

HasKey(entries, key) == \E i \in 1..Len(entries) : entries[i][1] = key

\* params.key
Prop(entries, key) ==
    IF HasKey(entries, key)
    THEN entries[CHOOSE i \in 1..Len(entries) : entries[i][1] = key][2]
    ELSE IF key \in ObjectPrototypeKeys THEN Fn(key)
    ELSE Undefined

\* a || b
Or(a, b) == IF Truthy(a) THEN a ELSE b

\* { ...base, key: value }: an own key keeps its place, a new one goes last
SetProp(entries, key, value) ==
    IF HasKey(entries, key)
    THEN [i \in 1..Len(entries) |->
            IF entries[i][1] = key THEN <<key, value>> ELSE entries[i]]
    ELSE Append(entries, <<key, value>>)

RECURSIVE Spread(_, _)
\* { ...base, ...extra }
Spread(base, extra) ==
    IF extra = <<>> THEN base
    ELSE Spread(SetProp(base, Head(extra)[1], Head(extra)[2]), Tail(extra))

RECURSIVE DeleteProp(_, _)
\* delete obj[key]
DeleteProp(entries, key) ==
    IF entries = <<>> THEN <<>>
    ELSE IF Head(entries)[1] = key THEN DeleteProp(Tail(entries), key)
         ELSE <<Head(entries)>> \o DeleteProp(Tail(entries), key)

-----------------------------------------------------------------------------
(* utils/fileSystem.js and the path module, on POSIX paths.                 *)

LowerOf ==
    [c \in {"A","B","C","D","E","F","G","H","I","J","K","L","M",
            "N","O","P","Q","R","S","T","U","V","W","X","Y","Z"} |->
        CHOOSE l \in DOMAIN UpperOf : UpperOf[l] = c]

RECURSIVE toLowerCase(_)
\* String.prototype.toLowerCase
toLowerCase(s) ==
    IF s = "" THEN ""
    ELSE (IF SubSeq(s, 1, 1) \in DOMAIN LowerOf THEN LowerOf[SubSeq(s, 1, 1)]
          ELSE SubSeq(s, 1, 1)) \o toLowerCase(SubSeq(s, 2, Len(s)))

startsWith(s, prefix) ==
    Len(prefix) <= Len(s) /\ SubSeq(s, 1, Len(prefix)) = prefix

RECURSIVE replaceAll(_, _, _)
\* String.prototype.replace with a global one-character pattern
replaceAll(s, c, by) ==
    IF s = "" THEN ""
    ELSE (IF SubSeq(s, 1, 1) = c THEN by ELSE SubSeq(s, 1, 1))
         \o replaceAll(SubSeq(s, 2, Len(s)), c, by)

\* path.basename of a path without a trailing separator
basename(p) == LET parts == split(p, "/") IN parts[Len(parts)]

\* path.extname: from the last dot of the base name, unless that dot leads it
extname(p) ==
    LET base == basename(p)
        dots == {i \in 1..Len(base) : SubSeq(base, i, i) = "."}
    IN  IF dots = {} THEN ""
        ELSE LET last == CHOOSE i \in dots : \A j \in dots : j <= i
             IN  IF last = 1 THEN "" ELSE SubSeq(base, last, Len(base))

\* path.relative(from, to) for a file below the directory `from`
relative(from, to) ==
    IF startsWith(to, from \o "/") THEN SubSeq(to, Len(from) + 2, Len(to)) ELSE to

\* readFile: binaryExtensions
binaryExtensions ==
    <<".jpg", ".jpeg", ".png", ".gif", ".bmp", ".webp", ".svg", ".pdf", ".doc",
      ".docx", ".xls", ".xlsx", ".ppt", ".pptx", ".zip", ".rar", ".tar", ".gz",
      ".7z", ".mp3", ".wav", ".mp4", ".avi", ".mov", ".exe", ".bin", ".dll", ".so">>

\* getContentType: contentTypes
contentTypes ==
       ".txt" :> "text/plain" @@ ".csv" :> "text/csv"
    @@ ".json" :> "application/json" @@ ".xml" :> "application/xml"
    @@ ".html" :> "text/html" @@ ".css" :> "text/css"
    @@ ".js" :> "application/javascript" @@ ".md" :> "text/markdown"
    @@ ".jpg" :> "image/jpeg" @@ ".jpeg" :> "image/jpeg" @@ ".png" :> "image/png"
    @@ ".gif" :> "image/gif" @@ ".bmp" :> "image/bmp" @@ ".webp" :> "image/webp"
    @@ ".svg" :> "image/svg+xml" @@ ".pdf" :> "application/pdf"
    @@ ".doc" :> "application/msword"
    @@ ".docx" :> "application/vnd.openxmlformats-officedocument.wordprocessingml.document"
    @@ ".xls" :> "application/vnd.ms-excel"
    @@ ".xlsx" :> "application/vnd.openxmlformats-officedocument.spreadsheetml.sheet"
    @@ ".zip" :> "application/zip" @@ ".tar" :> "application/x-tar"
    @@ ".gz" :> "application/gzip" @@ ".mp3" :> "audio/mpeg" @@ ".wav" :> "audio/wav"
    @@ ".mp4" :> "video/mp4" @@ ".avi" :> "video/x-msvideo"

\* getContentType(ext)
getContentType(ext) ==
    IF ext \in DOMAIN contentTypes THEN contentTypes[ext] ELSE "application/octet-stream"

\* what the disk holds: the bytes of each file, as text and in base64
DiskText == "/d/a.txt" :> "hello" @@ "/d/.env" :> "K=1" @@ "/d/s/b.png" :> "PNG"
DiskBase64 == "/d/a.txt" :> "aGVsbG8=" @@ "/d/.env" :> "Sz0x" @@ "/d/s/b.png" :> "UE5H"
Disk == DOMAIN DiskText

\* fileSystem.readFile(filePath) when stat and the read succeed
readFileResult(filePath) ==
    LET ext == toLowerCase(extname(filePath))
        isBinary == ArrIncludes(binaryExtensions, ext)
    IN  [success |-> TRUE,
         fileName |-> basename(filePath),
         filePath |-> filePath,
         content |-> IF isBinary THEN DiskBase64[filePath] ELSE DiskText[filePath],
         contentType |-> IF isBinary THEN getContentType(ext)
                         ELSE IF getContentType(ext) # "" THEN getContentType(ext)
                              ELSE "text/plain",
         fileSize |-> Len(DiskText[filePath]),
         isBinary |-> isBinary]

\* fileSystem.readFile(filePath) when stat or the read fails: the catch
readFileError(filePath) ==
    [success |-> FALSE, fileName |-> "", filePath |-> filePath, content |-> "",
     contentType |-> "", fileSize |-> 0, isBinary |-> FALSE]

\* Buffer.from(content, "base64")
Buffer(base64) == [t |-> "Buffer", v |-> base64]

-----------------------------------------------------------------------------
(* The storage tools: createBucket, deleteBucket, listBuckets, getObject,   *)
(* deleteObject and putObject. Each is an async function: it runs to its    *)
(* next await (or to its end) without another callback running in between.  *)
(* `t` is the record of the invocation; its trace lists, in the order they  *)
(* were made, the calls to parameterMapper.mapParameters and s3Client.send. *)

NoResult == [kind |-> "none", success |-> FALSE, message |-> "", s3Key |-> Undefined]
\* return { success, message, ... }
Returned(success, message) ==
    [kind |-> "return", success |-> success, message |-> message, s3Key |-> Undefined]
\* the promise of the async function rejects
Rejected(err) ==
    [kind |-> "throw", success |-> FALSE, message |-> err.v, s3Key |-> Undefined]

NoUp == [mode |-> "none", sp |-> <<>>, files |-> <<>>, found |-> 0, i |-> 0,
         s3Key |-> Undefined, file |-> readFileError(""),
         successful |-> <<>>, failed |-> <<>>, skipped |-> <<>>]

NoTool == [name |-> "none", params |-> Undefined, at |-> "idle", trace |-> <<>>,
           result |-> NoResult, up |-> NoUp, adds |-> 0]

\* parameterMapper.mapParameters(input) was called and gave `outcome`; the
\* call saw the table between the two halves of an addMapping iff `partial`
MapEv(input, outcome) ==
    [ev |-> "map", cmd |-> "", input |-> input, outcome |-> outcome,
     value |-> Undefined, file |-> "", partial |-> (addAt = "table"), adds |-> adds]

\* s3Client.send(new <cmd>Command(value)) was called; `file` is the file whose
\* content the command carries, if it was read from the disk
SendEv(cmd, value, file) ==
    [ev |-> "send", cmd |-> cmd, input |-> <<>>,
     outcome |-> [kind |-> "none", value |-> Undefined],
     value |-> value, file |-> file, partial |-> FALSE, adds |-> adds]

\* const commandParams = parameterMapper.mapParameters(params);
\* const command = new <cmd>Command(commandParams); await s3Client.send(command)
\* outside any try block: an error of the mapper rejects the tool's promise.
\* (The arguments of a request hold no nested object, so the call leaves the
\* heap as it is.)
MapThenSend(t, cmd, input) ==
    LET r == mapParameters(Self, input, heap) IN
    IF r.outcome.kind = "throw"
    THEN [t EXCEPT !.trace = Append(@, MapEv(input, r.outcome)),
                   !.at = "rejected",
                   !.result = Rejected(r.outcome.value)]
    ELSE [t EXCEPT !.trace = @ \o <<MapEv(input, r.outcome),
                                    SendEv(cmd, r.outcome.value, "")>>,
                   !.at = "sending"]

\* reading a property of undefined
NoParams(t) ==
    [t EXCEPT !.at = "rejected",
              !.result = Rejected(TypeError("Cannot read properties of undefined"))]

\* createBucket(params), to its first await
createBucket(t) ==
    IF t.params = Undefined THEN NoParams(t)
    ELSE IF ~Truthy(Prop(t.params.v, "bucketName"))
    THEN [t EXCEPT !.at = "done",
                   !.result = Returned(FALSE, "Error: bucketName is required")]
    ELSE MapThenSend(t, "CreateBucket", t.params.v)

\* deleteBucket(params), to its first await
deleteBucket(t) ==
    IF t.params = Undefined THEN NoParams(t)
    ELSE IF ~Truthy(Prop(t.params.v, "bucketName"))
    THEN [t EXCEPT !.at = "done",
                   !.result = Returned(FALSE, "Error: bucketName is required")]
    ELSE MapThenSend(t, "DeleteBucket", t.params.v)

\* listBuckets(params = {}), to its first await
listBuckets(t) ==
    MapThenSend(t, "ListBuckets", IF t.params = Undefined THEN <<>> ELSE t.params.v)

\* getObject(params), to its first await
getObject(t) ==
    IF t.params = Undefined THEN NoParams(t)
    ELSE IF ~Truthy(Prop(t.params.v, "bucketName")) \/ ~Truthy(Prop(t.params.v, "fileName"))
    THEN [t EXCEPT !.at = "done",
                   !.result = Returned(FALSE, "Error: bucketName and fileName are required")]
    ELSE MapThenSend(t, "GetObject", t.params.v)

\* deleteObject(params), to its first await
deleteObject(t) ==
    IF t.params = Undefined THEN NoParams(t)
    ELSE IF ~Truthy(Prop(t.params.v, "bucketName")) \/ ~Truthy(Prop(t.params.v, "fileName"))
    THEN [t EXCEPT !.at = "done",
                   !.result = Returned(FALSE, "Error: bucketName and fileName are required")]
    ELSE MapThenSend(t, "DeleteObject", t.params.v)

\* uploadDirectContent(params), to its await: the try block catches the mapper
uploadDirectContent(t) ==
    LET r == mapParameters(Self, t.params.v, heap) IN
    IF r.outcome.kind = "throw"
    THEN [t EXCEPT !.trace = Append(@, MapEv(t.params.v, r.outcome)),
                   !.at = "done",
                   !.result = Returned(FALSE, "Direct upload error")]
    ELSE [t EXCEPT !.trace = @ \o <<MapEv(t.params.v, r.outcome),
                                    SendEv("PutObject", r.outcome.value, "")>>,
                   !.at = "sending",
                   !.up.mode = "direct"]

\* putObject(params), to its first await
putObject(t) ==
    IF t.params = Undefined THEN NoParams(t)
    ELSE LET params == t.params.v IN
    IF ~Truthy(Prop(params, "bucketName"))
    THEN [t EXCEPT !.at = "done",
                   !.result = Returned(FALSE, "Error: bucketName is required.")]
    ELSE IF Truthy(Prop(params, "fileContent")) /\ Truthy(Prop(params, "fileName"))
    THEN uploadDirectContent(t)
    ELSE IF Truthy(Prop(params, "filePath"))
    \* uploadSingleFile(params): await fileSystem.readFile(params.filePath)
    THEN [t EXCEPT !.at = "reading", !.up.mode = "single", !.up.sp = params]
    ELSE IF Truthy(Prop(params, "directoryPath"))
    \* uploadDirectory(params): await fileSystem.getAllFiles(...)
    THEN [t EXCEPT !.at = "listing", !.up.mode = "directory"]
    ELSE [t EXCEPT !.at = "done",
                   !.result = Returned(FALSE, "Error: Provide either fileContent+fileName, filePath, or directoryPath.")]

\* a body that is always the string read: binary content sent as base64 text
SetBody_Text(commandParams, fileResult) ==
    Obj(Put(commandParams.v, "Body", Str(fileResult.content)))

\* uploadSingleFile, "Handle binary content": commandParams.Body = ...
SetBody(commandParams, fileResult) ==
    Obj(Put(commandParams.v, "Body",
            IF fileResult.isBinary THEN Buffer(fileResult.content)
            ELSE Str(fileResult.content)))

\* the options of uploadDirectory
DefaultMaxFiles == 100
preserveStructure(params) == Prop(params, "preserveStructure") # Bool(FALSE)
s3Prefix(params) == Or(Prop(params, "s3Prefix"), Str(""))
maxFiles(params) == Or(Prop(params, "maxFiles"), Num(DefaultMaxFiles))
excludeHidden(params) == Prop(params, "excludeHidden") # Bool(FALSE)

\* uploadDirectory: the S3 key of the file at filePath
DirectoryKey(params, filePath) ==
    LET prefix == s3Prefix(params)
        name == IF preserveStructure(params)
                THEN relative(Prop(params, "directoryPath").v, filePath)
                ELSE basename(filePath)
    IN  replaceAll(IF Truthy(prefix) THEN prefix.v \o "/" \o name ELSE name, "\\", "/")

RECURSIVE DirLoop(_, _)
\* uploadDirectory: the for loop from file i on, to the next await (the read of
\* the next file that is not skipped) or to the summary after the last file
DirLoop(t, i) ==
    LET params == t.params.v IN
    IF i > Len(t.up.files)
    THEN [t EXCEPT !.at = "done",
                   !.up.i = i,
                   !.result = Returned(Len(t.up.successful) > 0,
                                       "Directory upload completed")]
    ELSE LET filePath == t.up.files[i] IN
         IF excludeHidden(params) /\ startsWith(basename(filePath), ".")
         THEN DirLoop([t EXCEPT !.up.skipped = Append(@, filePath)], i + 1)
         ELSE [t EXCEPT
                 !.at = "reading",
                 !.up.i = i,
                 !.up.sp = << <<"bucketName", Prop(params, "bucketName")>>,
                              <<"filePath", Str(filePath)>>,
                              <<"s3Key", Str(DirectoryKey(params, filePath))>>,
                              <<"acl", Prop(params, "acl")>>,
                              <<"serverSideEncryption", Prop(params, "serverSideEncryption")>>,
                              <<"storageClass", Prop(params, "storageClass")>>,
                              <<"metadata", Prop(params, "metadata")>> >>]

\* uploadDirectory after getAllFiles has given allFiles
AfterList(t, allFiles) ==
    IF Len(allFiles) = 0
    THEN [t EXCEPT !.at = "done", !.result = Returned(FALSE, "No files found in directory")]
    ELSE LET m == maxFiles(t.params.v).v
             n == IF m < Len(allFiles) THEN m ELSE Len(allFiles)
         IN  DirLoop([t EXCEPT !.up.found = Len(allFiles),
                               !.up.files = SubSeq(allFiles, 1, n)], 1)

\* a loop of uploadDirectory that a failed file ends
SingleDone_StopsOnFailure(t, result) ==
    IF t.up.mode = "single"
    THEN [t EXCEPT !.at = "done", !.result = result]
    ELSE LET filePath == t.up.files[t.up.i] IN
         IF result.success
         THEN DirLoop([t EXCEPT !.up.successful = Append(@, filePath)], t.up.i + 1)
         ELSE [t EXCEPT !.up.failed = Append(@, filePath),
                        !.at = "done",
                        !.result = Returned(Len(t.up.successful) > 0,
                                            "Directory upload completed")]

\* uploadSingleFile has returned `result`: to putObject's caller, or to the
\* loop of uploadDirectory, which files it and goes on
SingleDone(t, result) ==
    IF t.up.mode = "single"
    THEN [t EXCEPT !.at = "done", !.result = result]
    ELSE LET filePath == t.up.files[t.up.i] IN
         DirLoop(IF result.success
                 THEN [t EXCEPT !.up.successful = Append(@, filePath)]
                 ELSE [t EXCEPT !.up.failed = Append(@, filePath)],
                 t.up.i + 1)

\* uploadSingleFile(sp) after the read: from fileResult to the await of send
AfterRead(t, fileResult) ==
    LET sp == t.up.sp IN
    IF ~fileResult.success
    THEN SingleDone(t, Returned(FALSE, "Error reading file"))
    ELSE LET s3Key == Or(Or(Prop(sp, "s3Key"), Prop(sp, "fileName")),
                         Str(basename(Prop(sp, "filePath").v)))
             uploadParams ==
                 DeleteProp(DeleteProp(
                     Spread(<< <<"bucketName", Prop(sp, "bucketName")>>,
                               <<"fileName", s3Key>>,
                               <<"fileContent", Str(fileResult.content)>>,
                               <<"contentType", Str(fileResult.contentType)>> >>, sp),
                     "filePath"), "s3Key")
             r == mapParameters(Self, uploadParams, heap)
         IN  IF r.outcome.kind = "throw"
             THEN SingleDone([t EXCEPT !.trace = Append(@, MapEv(uploadParams, r.outcome))],
                             Returned(FALSE, "Single file upload error"))
             ELSE [t EXCEPT !.trace = @ \o <<MapEv(uploadParams, r.outcome),
                                             SendEv("PutObject",
                                                    SetBody(r.outcome.value, fileResult),
                                                    fileResult.filePath)>>,
                            !.at = "sending",
                            !.up.s3Key = s3Key,
                            !.up.file = fileResult]

\* the tool after s3Client.send has resolved (ok) or rejected
AfterSend(t, ok) ==
    IF t.name # "putObject"
    THEN [t EXCEPT !.at = "done",
                   !.result = IF ok THEN Returned(TRUE, "success")
                              ELSE Returned(FALSE, "AWS Error")]
    ELSE IF t.up.mode = "direct"
    THEN [t EXCEPT !.at = "done",
                   !.result = IF ok THEN Returned(TRUE, "uploaded")
                              ELSE Returned(FALSE, "Direct upload error")]
    ELSE SingleDone(t, IF ok THEN [Returned(TRUE, "uploaded") EXCEPT !.s3Key = t.up.s3Key]
                       ELSE Returned(FALSE, "Single file upload error"))

\* the tool function `name`, called with `params`
RunTool(name, params) ==
    LET t == [NoTool EXCEPT !.name = name, !.params = params, !.adds = adds] IN
    CASE name = "createBucket" -> createBucket(t)
      [] name = "deleteBucket" -> deleteBucket(t)
      [] name = "listBuckets" -> listBuckets(t)
      [] name = "getObject" -> getObject(t)
      [] name = "deleteObject" -> deleteObject(t)
      [] name = "putObject" -> putObject(t)

-----------------------------------------------------------------------------
(* tools/exportTableToStorage.js: the bridge from the MySQL MCP server to   *)
(* the object storage. queryMySQLMCP spawns the server, writes one request  *)
(* on its stdin and settles its promise from the events of the process and  *)
(* of its own timer.                                                        *)

\* String.prototype.trim, for the white space the server's lines end with
RECURSIVE trim(_)
trim(s) ==
    IF Len(s) = 0 THEN s
    ELSE IF SubSeq(s, Len(s), Len(s)) \in {"\n", " "} THEN trim(SubSeq(s, 1, Len(s) - 1))
    ELSE IF SubSeq(s, 1, 1) \in {"\n", " "} THEN trim(SubSeq(s, 2, Len(s)))
    ELSE s

\* the JSON-RPC response with the rows in a text item, as the server prints
\* it, cut where the pipe may deliver it in two data events
RowsHead == "{\"result\":{\"content\":[{\"type\":\"text\","
RowsTail == "\"text\":\"[1]\"}]}}\n"

\* the value of a response: response.error, whether response.result.content
\* is there, and the items of the content
Json(error, hasContent, content) ==
    [error |-> error, hasContent |-> hasContent, content |-> content]

\* JSON.parse on the texts the server prints: the value of a complete
\* document; any other text (a part of a document, a banner, nothing) is a
\* SyntaxError
JsonDocuments ==
    trim(RowsHead \o RowsTail)
        :> Json(Undefined, TRUE, <<[type |-> "text", text |-> "[1]"]>>)
    @@ "{\"result\":{\"content\":[{\"type\":\"text\",\"text\":\"[]\"}]}}"
        :> Json(Undefined, TRUE, <<[type |-> "text", text |-> "[]"]>>)
    @@ "{\"error\":{\"message\":\"Unknown table\"}}"
        :> Json(Str("Unknown table"), FALSE, <<>>)
    @@ "{\"result\":{\"content\":[{\"type\":\"image\"}]}}"
        :> Json(Undefined, TRUE, <<[type |-> "image", text |-> ""]>>)
    @@ "{\"result\":{}}"
        :> Json(Undefined, FALSE, <<>>)
\* the row arrays in the text items, by their length
JsonArrays == "[1]" :> 1 @@ "[]" :> 0
JSONParse(text, documents) ==
    IF text \in DOMAIN documents
    THEN [ok |-> TRUE, value |-> documents[text]]
    ELSE [ok |-> FALSE, value |-> "SyntaxError"]

\* the text is a complete JSON-RPC result whose text item holds the rows
ValidResult(text) ==
    /\ JSONParse(text, JsonDocuments).ok
    /\ LET response == JSONParse(text, JsonDocuments).value IN
         /\ ~Truthy(response.error)
         /\ \E i \in 1..Len(response.content) :
               /\ response.content[i].type = "text"
               /\ JSONParse(response.content[i].text, JsonArrays).ok

\* what one run of the server writes on stdout, chunk by chunk: nothing, a
\* response in one line, the rows in two chunks or cut off, a banner
Stdouts ==
    {<<>>, <<RowsHead, RowsTail>>, <<RowsHead>>, <<"MySQL MCP server running on stdio\n">>}
    \cup {<<document \o "\n">> : document \in DOMAIN JsonDocuments}

\* the value queryMySQLMCP resolves with: success, message, and the data by
\* its rowCount
QueryResult(success, message, rowCount) ==
    [success |-> success, message |-> message, rowCount |-> rowCount]

\* new Promise(...): pending until resolve or reject is called
Pending == [state |-> "pending", value |-> QueryResult(FALSE, "", 0)]

\* a promise whose value the latest call of resolve replaces
resolve_Overwrites(promise, value) == [state |-> "fulfilled", value |-> value]

\* resolve(value): settles a pending promise; a settled one stays as it is
resolve(promise, value) ==
    IF promise.state = "pending" THEN [state |-> "fulfilled", value |-> value]
    ELSE promise

\* buildSelectQuery(params), for the parameters the model gives
buildSelectQuery(params) ==
    "SELECT * FROM " \o Prop(params, "mysqlDatabase").v \o "." \o Prop(params, "tableName").v

\* the spawned process and the closure of queryMySQLMCP: the process, its
\* exit code, whether a signal of kill() reached it, what it has still to
\* write, responseData, the pending 100 ms timers, the 10 s timer, the promise;
\* `timely` records that the complete result was read before the 10 s timer
NoQuery ==
    [proc |-> "none", code |-> Undefined, killed |-> FALSE, stdout |-> <<>>,
     responseData |-> "", killTimers |-> 0, timeout |-> "none", sql |-> "",
     host |-> Undefined, promise |-> Pending, timely |-> FALSE]

\* queryMySQLMCP(params): the executor, run synchronously: spawn, the
\* handlers, the request on stdin, the timer
queryMySQLMCP(params, stdout) ==
    [NoQuery EXCEPT !.proc = "running",
                    !.stdout = stdout,
                    !.host = Or(Prop(params, "mysqlHost"), Str("localhost")),
                    !.sql = buildSelectQuery(params),
                    !.timeout = "armed"]

\* the exit codes the close event reports when kill() has ended the process:
\* null when SIGTERM terminated it, 0 when the server handles the signal and
\* exits by itself
KillCodes == {Null, Num(0)}

\* mysqlProcess.kill(): SIGTERM to a process that runs, nothing otherwise
kill(q, code) ==
    IF q.proc = "running"
    THEN [q EXCEPT !.proc = "exited", !.code = code, !.killed = TRUE]
    ELSE q

\* mysqlProcess.stdout.on("data"): append, and a timer that kills in 100 ms
onData(q) ==
    [q EXCEPT !.responseData = @ \o Head(q.stdout),
              !.stdout = Tail(@),
              !.killTimers = @ + 1,
              !.timely = (q.timeout = "armed"
                          /\ ValidResult(trim(q.responseData \o Head(q.stdout))))]

\* mysqlProcess.on("close", code)
onClose(q) ==
    LET res(value) == [q EXCEPT !.proc = "closed", !.promise = resolve(@, value)] IN
    IF q.code # Num(0)
    THEN res(QueryResult(FALSE,
                         "MySQL MCP process exited with code "
                            \o (IF q.code = Null THEN "null" ELSE ToString(q.code.v)),
                         0))
    ELSE LET parsed == JSONParse(trim(q.responseData), JsonDocuments) IN
         IF ~parsed.ok
         THEN res(QueryResult(FALSE, "Failed to parse MySQL MCP response", 0))
         ELSE LET response == parsed.value
                  texts == SelectSeq(response.content, LAMBDA c : c.type = "text")
              IN  IF Truthy(response.error)
                  THEN res(QueryResult(FALSE, response.error.v, 0))
                  ELSE IF ~response.hasContent
                  THEN res(QueryResult(FALSE, "Invalid MySQL MCP response format", 0))
                  ELSE IF texts = <<>>
                  THEN res(QueryResult(FALSE, "No text content found in MySQL MCP response", 0))
                  ELSE LET data == JSONParse(texts[1].text, JsonArrays) IN
                       IF ~data.ok
                       THEN res(QueryResult(FALSE, "Failed to parse MySQL MCP response", 0))
                       ELSE res(QueryResult(TRUE, "", data.value))

\* mysqlProcess.on("error"): the process could not be started
onError(q) ==
    [q EXCEPT !.proc = "exited", !.code = Num(-2),
              !.promise = resolve(@, QueryResult(FALSE, "Failed to start MySQL MCP process", 0))]

\* the 10 s timer: kill, then resolve with the timeout
onTimeout(q, code) ==
    [kill(q, code) EXCEPT
        !.timeout = "fired",
        !.promise = resolve(@, QueryResult(FALSE, "MySQL MCP query timeout (10 seconds)", 0))]

\* formatData(data, format, params): the text for the rows, by their number
formatData(rowCount, format) ==
    CASE toLowerCase(format) = "json" -> "{\"recordCount\":" \o ToString(rowCount) \o "}"
      [] toLowerCase(format) = "csv" -> IF rowCount = 0 THEN "" ELSE "id\n1\n"
      [] toLowerCase(format) = "jsonl" -> IF rowCount = 0 THEN "" ELSE "1"
      [] OTHER -> IF rowCount = 0 THEN "[]" ELSE "[1]"

\* getContentType(format) of the export
exportContentType(format) ==
    CASE toLowerCase(format) = "json" -> "application/json"
      [] toLowerCase(format) = "csv" -> "text/csv"
      [] toLowerCase(format) = "jsonl" -> "application/x-jsonlines"
      [] OTHER -> "text/plain"

NoExport ==
    [at |-> "idle", params |-> Undefined, result |-> NoResult, query |-> NoQuery,
     upload |-> NoTool]

\* exportTableToStorage(params), to its first await
exportTableToStorage(params, stdout) ==
    LET e == [NoExport EXCEPT !.params = params]
        fail(message) == [e EXCEPT !.at = "done", !.result = Returned(FALSE, message)]
    IN  IF ~Truthy(Prop(params.v, "tableName"))
        THEN fail("Error: tableName is required.")
        ELSE IF ~Truthy(Prop(params.v, "bucketName"))
        THEN fail("Error: bucketName is required.")
        ELSE IF ~Truthy(Prop(params.v, "mysqlDatabase"))
        THEN fail("Error: mysqlDatabase is required. Specify which database to export from.")
        ELSE [e EXCEPT !.at = "querying", !.query = queryMySQLMCP(params.v, stdout)]

\* exportTableToStorage after `await queryMySQLMCP(params)`: the check of the
\* data, the format and the call of putObject, to putObject's first await
AfterQuery(e) ==
    LET params == e.params.v
        mysqlData == e.query.promise.value
    IN  IF ~mysqlData.success
        THEN [e EXCEPT !.at = "done",
                       !.result = Returned(FALSE, "MySQL MCP query failed: " \o mysqlData.message)]
        ELSE LET format == Or(Prop(params, "format"), Str("json")).v
                 formattedData == formatData(mysqlData.rowCount, format)
                 \* generateFileName(tableName, format), the time stamp left out
                 fileName == Or(Prop(params, "fileName"),
                                Str(Prop(params, "tableName").v \o "_export." \o format))
                 uploadParams ==
                     << <<"bucketName", Prop(params, "bucketName")>>,
                        <<"fileName", fileName>>,
                        <<"fileContent", Str(formattedData)>>,
                        <<"contentType", Str(exportContentType(format))>>,
                        <<"s3Prefix", Prop(params, "s3Prefix")>>,
                        <<"acl", Prop(params, "acl")>>,
                        <<"serverSideEncryption", Prop(params, "serverSideEncryption")>>,
                        <<"storageClass", Prop(params, "storageClass")>>,
                        <<"metadata", Obj("source" :> Str("mysql-mcp-bridge")
                                          @@ "table-name" :> Prop(params, "tableName")
                                          @@ "export-format" :> Str(format)
                                          @@ "record-count" :> Str(ToString(mysqlData.rowCount)))>> >>
                 t == putObject([NoTool EXCEPT !.name = "putObject",
                                               !.params = Params(uploadParams)])
             IN  IF t.at = "sending"
                 THEN [e EXCEPT !.at = "uploading", !.upload = t]
                 ELSE [e EXCEPT !.at = "done", !.upload = t,
                                !.result = Returned(FALSE, "Export failed during S3 upload: "
                                                           \o t.result.message)]

\* exportTableToStorage after `await putObject(uploadParams)`
AfterUpload(e, ok) ==
    LET t == AfterSend(e.upload, ok) IN
    [e EXCEPT !.at = "done", !.upload = t,
              !.result = IF t.result.success
                         THEN Returned(TRUE, "Successfully exported "
                                             \o Prop(e.params.v, "tableName").v \o " to "
                                             \o Prop(e.params.v, "bucketName").v \o "!")
                         ELSE Returned(FALSE, "Export failed during S3 upload: "
                                              \o t.result.message)]

\* the arguments of export_table_to_storage: the two identifiers, the MySQL
\* database and host (the connection parameters), the format of the file
ExportParams ==
    {Params(Present(<< <<"tableName", t>>, <<"bucketName", b>>, <<"mysqlDatabase", d>>,
                       <<"mysqlHost", h>>, <<"format", f>> >>)) :
        t \in {Absent, Str("users")}, b \in {Absent, Str("my-bucket")},
        d \in {Absent, Str("shop")}, h \in {Absent, Str("db.local")},
        f \in {Absent, Str("csv")}}

-----------------------------------------------------------------------------
(* utils/fileSystem.js listDirectory and the list_directory tool, on a tree *)
(* of directories: /r and below it, MaxLevels - 1 levels deep, a directory  *)
(* d in every directory, and a file and a hidden file in each of them.      *)

RECURSIVE DirsTo(_)
\* the directories down to n levels below /r
DirsTo(n) == IF n = 0 THEN {"/r"} ELSE DirsTo(n - 1) \cup {p \o "/d" : p \in DirsTo(n - 1)}
TreeFiles ==
    {p \o "/f.txt" : p \in DirsTo(MaxLevels - 1)}
    \cup {p \o "/.env" : p \in DirsTo(MaxLevels - 1)}

\* fs.stat(path): the kind of what is there, or the error thrown
stat(p) ==
    IF p \in DirsTo(MaxLevels - 1) THEN "directory"
    ELSE IF p \in TreeFiles THEN "file"
    ELSE "ENOENT"

\* fs.readdir(dirPath)
readdir(dirPath) ==
    IF dirPath \in DirsTo(MaxLevels - 2) THEN <<".env", "d", "f.txt">>
    ELSE <<".env", "f.txt">>

\* a.name.localeCompare(b.name) < 0, for the names of the tree
NameBefore(a, b) ==
    LET order == <<".env", "d", "f.txt">> IN
    \E i, j \in 1..Len(order) : order[i] = a /\ order[j] = b /\ i < j

\* the options after the destructuring defaults of fileSystem.listDirectory
ListOptions(showHidden, filesOnly, dirsOnly, recursive, maxDepth) ==
    [showHidden |-> showHidden, filesOnly |-> filesOnly, dirsOnly |-> dirsOnly,
     recursive |-> recursive, maxDepth |-> maxDepth]

\* itemInfo; `listed` says whether itemInfo.contents was set
ItemInfo(name, itemPath, isDirectory, listed, contents) ==
    [name |-> name, path |-> itemPath, isDirectory |-> isDirectory,
     isFile |-> ~isDirectory, listed |-> listed, contents |-> contents]

\* contents.sort: directories first, then by name
SortContents(contents) ==
    SortSeq(contents,
            LAMBDA a, b : \/ a.isDirectory /\ ~b.isDirectory
                          \/ a.isDirectory = b.isDirectory /\ NameBefore(a.name, b.name))

RECURSIVE fsListDirectory(_, _)
RECURSIVE ListItems(_, _, _)
\* the for loop of listDirectory over `items`
ListItems(dirPath, items, options) ==
    IF items = <<>> THEN <<>>
    ELSE LET item == Head(items)
             rest == ListItems(dirPath, Tail(items), options)
             itemPath == dirPath \o "/" \o item
             isDirectory == stat(itemPath) = "directory"
         IN  IF ~Truthy(options.showHidden) /\ startsWith(item, ".") THEN rest
             ELSE IF Truthy(options.filesOnly) /\ isDirectory THEN rest
             ELSE IF Truthy(options.dirsOnly) /\ ~isDirectory THEN rest
             ELSE IF Truthy(options.recursive) /\ isDirectory /\ options.maxDepth.v > 0
             THEN LET subContents ==
                          fsListDirectory(itemPath,
                              [options EXCEPT !.maxDepth = Num(options.maxDepth.v - 1)])
                  IN  <<ItemInfo(item, itemPath, isDirectory, subContents.success,
                                 IF subContents.success THEN subContents.contents
                                 ELSE <<>>)>> \o rest
             ELSE <<ItemInfo(item, itemPath, isDirectory, FALSE, <<>>)>> \o rest

\* fileSystem.listDirectory(dirPath, options)
fsListDirectory(dirPath, options) ==
    IF stat(dirPath) = "ENOENT"
    THEN [success |-> FALSE, error |-> "ENOENT: no such file or directory",
          path |-> dirPath, contents |-> <<>>]
    ELSE IF stat(dirPath) # "directory"
    THEN [success |-> FALSE, error |-> "Path is not a directory",
          path |-> dirPath, contents |-> <<>>]
    ELSE [success |-> TRUE, error |-> "", path |-> dirPath,
          contents |-> SortContents(ListItems(dirPath, readdir(dirPath), options))]

\* the default of maxDepth, in the tool and in fileSystem.listDirectory
DefaultMaxDepth == 3

NoListing ==
    [at |-> "idle", params |-> Undefined, success |-> FALSE, message |-> "",
     options |-> ListOptions(Undefined, Undefined, Undefined, Undefined, Undefined),
     contents |-> <<>>]

\* the list_directory tool: listDirectory(params)
listDirectory(params) ==
    LET l == [NoListing EXCEPT !.at = "done", !.params = params] IN
    IF ~Truthy(Prop(params.v, "directoryPath"))
    THEN [l EXCEPT !.message = "Error: directoryPath is required. Please provide a directory path."]
    ELSE LET options ==
                 ListOptions(Or(Prop(params.v, "showHidden"), Bool(FALSE)),
                             Or(Prop(params.v, "filesOnly"), Bool(FALSE)),
                             Or(Prop(params.v, "dirsOnly"), Bool(FALSE)),
                             Or(Prop(params.v, "recursive"), Bool(FALSE)),
                             Or(Prop(params.v, "maxDepth"), Num(DefaultMaxDepth)))
             result == fsListDirectory(Prop(params.v, "directoryPath").v, options)
         IN  IF result.success
             THEN [l EXCEPT !.success = TRUE, !.options = options,
                            !.message = "Directory listed successfully!",
                            !.contents = result.contents]
             ELSE [l EXCEPT !.options = options,
                            !.message = "Error listing directory: " \o result.error]

\* the arguments of list_directory: a directory at the top and one below it, a
\* file, a path that is not there; the filters; the depth
ListDirParams ==
    {Params(Present(<< <<"directoryPath", p>>, <<"recursive", r>>, <<"maxDepth", m>>,
                       <<"showHidden", h>>, <<"filesOnly", f>>, <<"dirsOnly", d>> >>)) :
        p \in {Absent, Str("/r"), Str("/r/d"), Str("/r/f.txt"), Str("/none")},
        r \in {Absent, Bool(TRUE)},
        m \in {Absent} \cup {Num(n) : n \in 0..DefaultMaxDepth},
        h \in {Absent, Bool(TRUE)}, f \in {Absent, Bool(TRUE)}, d \in {Absent, Bool(TRUE)}}

-----------------------------------------------------------------------------
(* The HTTP bridge (express-api.js in the README): each request to          *)
(* /api/chat or /api/list-buckets creates its own MCP client, which spawns  *)
(* its own server process, and streams the model's answer.                  *)

\* a request: its route, where its handler is, its MCP client, the stream of
\* the model, the status of the response, the chunks written or collected
NoRequest ==
    [route |-> "none", at |-> "idle", client |-> "none", stream |-> "none",
     status |-> 0, chunks |-> 0]

NoBridge == [r \in 1..MaxRequests |-> NoRequest]

\* app.post("/api/chat"): the check of req.body.messages, then to the await
\* of experimental_createMCPClient
chat(messagesValid) ==
    IF ~messagesValid
    THEN [NoRequest EXCEPT !.route = "chat", !.at = "done", !.status = 400]
    ELSE [NoRequest EXCEPT !.route = "chat", !.at = "connecting"]

\* the catch block of either handler: res.status(500).json(...)
Caught(q) == [q EXCEPT !.at = "done", !.status = 500]

\* after `await experimental_createMCPClient({ transport })`
AfterClient(q, ok) ==
    IF ok THEN [q EXCEPT !.client = "open", !.at = "tools"]
    ELSE Caught(q)

\* after `await mcpClient.tools()`: streamText is called and the handler
\* iterates over the stream
AfterTools(q, ok) ==
    IF ok THEN [q EXCEPT !.at = "streaming", !.stream = "running"]
    ELSE Caught(q)

\* the stream ends: /api/chat has given streamText an onFinish and an onError
\* callback, which both close the client; /api/list-buckets has given none
StreamEnds(q, how) ==
    [q EXCEPT !.stream = how,
              !.client = IF q.route = "chat" THEN "closed" ELSE @]

\* the for await loop of the handler is over
AfterLoop(q) ==
    IF q.route = "chat"
    \* res.end()
    THEN [q EXCEPT !.at = "done", !.status = 200]
    ELSE IF q.stream = "finished"
    \* await mcpClient.close(); res.json(...)
    THEN [q EXCEPT !.at = "done", !.status = 200, !.client = "closed"]
    \* the iteration has thrown
    ELSE Caught(q)

-----------------------------------------------------------------------------
(* The callers' inputs. *)

\* source keys of an input map: known keys with a flat, a nested, a date and a
\* boolean target, keys the constructor's table does not hold, a key that
\* upper-cases to a table target, a key that is itself a date-registered
\* target, an Object.prototype member, the empty key
InputKeys ==
    {"bucketName", "fileName", "locationConstraint", "expires",
     "objectLockEnabledForBucket", "newParam", "Bucket", "Expires", "constructor", ""}

ObjIds == {"o1"}

InputValues ==
    {Null, Undefined, Bool(TRUE), Bool(FALSE), Num(0), Str(""), Str("true"),
     Str("2024-01-01"), Str("not-a-date")} \cup {Ref(o) : o \in ObjIds}

\* values handed to convertType directly
ConvertValues ==
    InputValues \cup {Str("false"), Str("yes"), Str("TRUE"), Num(1)}

ConvertKeys ==
    {"Bucket", "Expires", "ObjectLockEnabledForBucket", "BucketKeyEnabled",
     "NewParam", "Bucket.Expires", ""}

Entries == InputKeys \X InputValues

\* the keys and values of the inputs of two entries and more: the keys whose
\* outputs can meet (the flat target Bucket of bucketName, the fallback of the
\* unknown key Bucket, and newParam once addMapping gives it a target), and
\* values that tell the entries apart
MultiKeys == {"bucketName", "Bucket", "newParam"}
MultiValues == {Null, Str(""), Str("true")} \cup {Ref(o) : o \in ObjIds}
MultiEntries == MultiKeys \X MultiValues

\* an input map in its own key order (no key is an array index, so
\* Object.entries gives insertion order): distinct keys, and no object held
\* twice (the parameters arrive as a JSON tree)
IsInput(s) ==
    \A i, j \in 1..Len(s) :
        i # j => /\ s[i][1] # s[j][1]
                 /\ ~(s[i][2].t = "ref" /\ s[i][2] = s[j][2])

\* the parameters the README's "How It Works" walks through for a bucket
\* creation, with the object-lock flag: every selection of them, in every order
ExampleEntries ==
    {<<"bucketName", Str("logs")>>, <<"acl", Str("private")>>,
     <<"locationConstraint", Str("eu-west-1")>>,
     <<"objectLockEnabledForBucket", Str("true")>>}
ExampleInputs ==
    UNION {{s \in [1..n -> ExampleEntries] : IsInput(s)} : n \in 1..4}

Inputs ==
    {<<>>} \cup {<<e>> : e \in Entries}
    \cup UNION {{s \in [1..n -> MultiEntries] : IsInput(s)} : n \in 2..MaxEntries}
    \cup ExampleInputs

\* the caller's nested objects as they arrive with a request
FreshHeap == [o \in ObjIds |-> ("k" :> Str("v"))]

\* arguments of addMapping: a source key the constructor's table does not hold;
\* a new flat target, a date-registered and a boolean-registered flat target
\* of the table, the flat target of bucketName (in no registry), a nested
\* target whose parent is that target and whose child is date-registered,
\* three segments, the empty string
AddSources == {"newParam"}
AddTargets ==
    {"NewParam", "Expires", "ObjectLockEnabledForBucket", "Bucket", "Bucket.Expires",
     "A.B.C", ""}
AddTypes == {"none", "date", "boolean"}

\* the arguments of the tools/call requests: the required identifiers missing,
\* empty or given, and a parameter the constructor's table does not hold
BucketParams ==
    {Undefined} \cup
    {Params(Present(<< <<"bucketName", b>>, <<"newParam", x>> >>)) :
        b \in {Absent, Str(""), Str("b")}, x \in {Absent, Str("true")}}
ObjectParams ==
    {Undefined} \cup
    {Params(Present(<< <<"bucketName", b>>, <<"fileName", f>> >>)) :
        b \in {Absent, Str(""), Str("b")}, f \in {Absent, Str(""), Str("f")}}
ListParams == {Undefined, Params(<<>>), Params(<< <<"newParam", Str("true")>> >>)}
\* for putObject, also what selects the upload mode: content (that of an
\* empty file too), the path of a text or a binary file, a directory, the key
\* to store under, and the limit of a directory upload
PutParams ==
    {Undefined} \cup
    {Params(Present(<< <<"bucketName", b>>, <<"fileName", f>>, <<"fileContent", c>>,
                       <<"filePath", p>>, <<"directoryPath", d>>, <<"s3Key", k>>,
                       <<"maxFiles", m>> >>)) :
        b \in {Absent, Str(""), Str("b")}, f \in {Absent, Str("f")},
        c \in {Absent, Str(""), Str("c")},
        p \in {Absent, Str("/d/a.txt"), Str("/d/s/b.png")},
        d \in {Absent, Str("/d")}, k \in {Absent, Str("k")},
        m \in {Absent, Num(1)}}

Requests ==
    ({"createBucket", "deleteBucket"} \X BucketParams)
    \cup ({"getObject", "deleteObject"} \X ObjectParams)
    \cup ({"listBuckets"} \X ListParams)
    \cup ({"putObject"} \X PutParams)

\* what getAllFiles can find below the directory: files of the disk, in the
\* order of the listing
FileLists ==
    UNION {{l \in [1..n -> Disk] : \A i, j \in 1..n : i # j => l[i] # l[j]} :
             n \in 0..MaxFiles}

\* the registrations made while tools run
AdminAdds ==
    {<<"newParam", "NewParam", "boolean">>, <<"newParam", "Bucket.Expires", "date">>}

-----------------------------------------------------------------------------
(* The state machine: one caller at a time (Node runs each call to completion). *)

NoOutcome == [kind |-> "none", value |-> Undefined]
NoCall == [op |-> "none", input |-> <<>>, key |-> "", value |-> Undefined,
           outcome |-> NoOutcome, again |-> NoOutcome]
NoAdd == [camelCase |-> "", pascalCase |-> "", type |-> "never"]

Init ==
    /\ knownMappings = InitialMappings
    /\ dateParameters = InitialDateParameters
    /\ booleanParameters = InitialBooleanParameters
    /\ heap = FreshHeap
    /\ pc = "idle"
    /\ call = NoCall
    /\ lastAdd = NoAdd
    /\ adds = 0
    /\ addAt = "none"
    /\ tool = NoTool
    /\ export = NoExport
    /\ listing = NoListing
    /\ bridge = NoBridge

SetSelf(self) ==
    /\ knownMappings' = self.knownMappings
    /\ dateParameters' = self.dateParameters
    /\ booleanParameters' = self.booleanParameters

\* a tool calls parameterMapper.mapParameters(input)
MapParameters ==
    /\ pc = "idle"
    /\ \E input \in Inputs :
         LET r == mapParameters(Self, input, heap) IN
         /\ SetSelf(r.self)
         /\ heap' = r.heap
         /\ call' = [NoCall EXCEPT !.op = "mapParameters", !.input = input,
                                   !.outcome = r.outcome]
    /\ pc' = "returned"
    /\ UNCHANGED <<export, listing, bridge>>
    /\ UNCHANGED <<lastAdd, adds, addAt, tool>>

\* the caller calls mapParameters a second time with the same input
MapParametersAgain ==
    /\ pc = "returned"
    /\ call.op = "mapParameters"
    /\ call.again = NoOutcome
    /\ LET r == mapParameters(Self, call.input, heap) IN
         /\ SetSelf(r.self)
         /\ heap' = r.heap
         /\ call' = [call EXCEPT !.again = r.outcome]
    /\ UNCHANGED <<export, listing, bridge>>
    /\ UNCHANGED <<pc, lastAdd, adds, addAt, tool>>

\* a caller calls parameterMapper.convertType(key, value)
ConvertType ==
    /\ pc = "idle"
    /\ \E key \in ConvertKeys, value \in ConvertValues :
         call' = [NoCall EXCEPT !.op = "convertType", !.key = key, !.value = value,
                    !.outcome = [kind |-> "return",
                                 value |-> convertType(Self, key, value)]]
    /\ pc' = "returned"
    /\ UNCHANGED <<export, listing, bridge>>
    /\ UNCHANGED <<knownMappings, dateParameters, booleanParameters, heap, lastAdd, adds,
                   addAt, tool>>

\* the caller is done with the result; the next request brings its own objects
Return ==
    /\ pc = "returned"
    /\ pc' = "idle"
    /\ call' = NoCall
    /\ heap' = FreshHeap
    /\ UNCHANGED <<export, listing, bridge>>
    /\ UNCHANGED <<knownMappings, dateParameters, booleanParameters, lastAdd, adds,
                   addAt, tool>>

\* a caller calls parameterMapper.addMapping(camelCase, pascalCase, type)
AddMapping ==
    /\ pc = "idle"
    /\ adds < MaxAdds
    /\ \E camelCase \in AddSources, pascalCase \in AddTargets, type \in AddTypes :
         /\ SetSelf(addMapping(Self, camelCase, pascalCase, type))
         /\ lastAdd' = [camelCase |-> camelCase, pascalCase |-> pascalCase,
                        type |-> type]
    /\ adds' = adds + 1
    /\ UNCHANGED <<export, listing, bridge>>
    /\ UNCHANGED <<heap, pc, call, addAt, tool>>

Next ==
    \/ MapParameters
    \/ MapParametersAgain
    \/ ConvertType
    \/ Return
    \/ AddMapping

Spec == Init /\ [][Next]_vars

-----------------------------------------------------------------------------
(* The tools on the event loop: the protocol server awaits each tool, and a *)
(* registration with addMapping may come in between. A callback starts only *)
(* when the one before it has returned or is waiting at an await.           *)

\* addMapping is an async method with an await between its statements
addMappingSuspends_Async == TRUE

\* addMapping has no await: it is a synchronous method
addMappingSuspends == FALSE

\* no callback is in the middle of its synchronous run
ThreadFree == addAt = "none" \/ addMappingSuspends

mapperVars == <<knownMappings, dateParameters, booleanParameters, lastAdd, adds, addAt>>

\* a tools/call request arrives and the handler calls the tool
Invoke ==
    /\ ThreadFree
    /\ tool.at = "idle"
    /\ \E request \in Requests : tool' = RunTool(request[1], request[2])
    /\ UNCHANGED <<export, listing, bridge>>
    /\ UNCHANGED <<mapperVars, heap, pc, call>>

\* fileSystem.readFile settles: with the file, or with its error
ReadSettles ==
    /\ ThreadFree
    /\ tool.at = "reading"
    /\ LET filePath == Prop(tool.up.sp, "filePath").v IN
       \E ok \in BOOLEAN :
          /\ ok => filePath \in Disk
          /\ tool' = AfterRead(tool, IF ok THEN readFileResult(filePath)
                                     ELSE readFileError(filePath))
    /\ UNCHANGED <<export, listing, bridge>>
    /\ UNCHANGED <<mapperVars, heap, pc, call>>

\* fileSystem.getAllFiles settles with the files it found
ListSettles ==
    /\ ThreadFree
    /\ tool.at = "listing"
    /\ \E allFiles \in FileLists : tool' = AfterList(tool, allFiles)
    /\ UNCHANGED <<export, listing, bridge>>
    /\ UNCHANGED <<mapperVars, heap, pc, call>>

\* s3Client.send settles: it resolves or it rejects
SendSettles ==
    /\ ThreadFree
    /\ tool.at = "sending"
    /\ \E ok \in BOOLEAN : tool' = AfterSend(tool, ok)
    /\ UNCHANGED <<export, listing, bridge>>
    /\ UNCHANGED <<mapperVars, heap, pc, call>>

\* the handler has the tool's result (or its error) and answers the request
Respond ==
    /\ ThreadFree
    /\ tool.at \in {"done", "rejected"}
    /\ tool' = NoTool
    /\ UNCHANGED <<export, listing, bridge>>
    /\ UNCHANGED <<mapperVars, heap, pc, call>>

\* addMapping, its first statement: this.knownMappings[camelCase] = pascalCase
AddTable ==
    /\ addAt = "none"
    /\ adds < MaxAdds
    /\ \E a \in AdminAdds :
         /\ knownMappings' = addMapping(Self, a[1], a[2], a[3]).knownMappings
         /\ lastAdd' = [camelCase |-> a[1], pascalCase |-> a[2], type |-> a[3]]
    /\ adds' = adds + 1
    /\ addAt' = "table"
    /\ UNCHANGED <<export, listing, bridge>>
    /\ UNCHANGED <<dateParameters, booleanParameters, heap, pc, call, tool>>

\* addMapping, its second statement: the push onto the registry of `type`
AddRegistry ==
    /\ addAt = "table"
    /\ LET self == addMapping(Self, lastAdd.camelCase, lastAdd.pascalCase, lastAdd.type) IN
         /\ dateParameters' = self.dateParameters
         /\ booleanParameters' = self.booleanParameters
    /\ addAt' = "none"
    /\ UNCHANGED <<export, listing, bridge>>
    /\ UNCHANGED <<knownMappings, lastAdd, adds, heap, pc, call, tool>>

NextTools ==
    \/ Invoke
    \/ ReadSettles
    \/ ListSettles
    \/ SendSettles
    \/ Respond
    \/ AddTable
    \/ AddRegistry

SpecTools == Init /\ [][NextTools]_vars

-----------------------------------------------------------------------------
(* The export bridge on the event loop: one export_table_to_storage call,   *)
(* the events of the process it spawned and its timers, each callback run   *)
(* to completion.                                                           *)

\* the handler calls exportTableToStorage(args); the server that may be
\* spawned will write `stdout`
ExportInvoke ==
    /\ export.at = "idle"
    /\ \E params \in ExportParams, stdout \in Stdouts :
         export' = exportTableToStorage(params, stdout)
    /\ UNCHANGED <<mapperVars, heap, pc, call, tool, listing, bridge>>

\* the process cannot be started: the error event
SpawnFails ==
    /\ export.query.proc = "running"
    /\ export.query.stdout = <<>>
    /\ export.query.responseData = ""
    /\ export' = [export EXCEPT !.query = onError(@)]
    /\ UNCHANGED <<mapperVars, heap, pc, call, tool, listing, bridge>>

\* the server writes its next chunk: the data event of stdout
StdoutData ==
    /\ export.query.proc = "running"
    /\ export.query.stdout # <<>>
    /\ export' = [export EXCEPT !.query = onData(@)]
    /\ UNCHANGED <<mapperVars, heap, pc, call, tool, listing, bridge>>

\* the server exits by itself: after its input has ended (0) or on a failure
ProcessExits ==
    /\ export.query.proc = "running"
    /\ \E code \in {Num(0), Num(1)} :
         export' = [export EXCEPT !.query.proc = "exited", !.query.code = code]
    /\ UNCHANGED <<mapperVars, heap, pc, call, tool, listing, bridge>>

\* a 100 ms timer set by a data event fires: mysqlProcess.kill()
KillTimerFires ==
    /\ export.query.killTimers > 0
    /\ \E code \in KillCodes :
         export' = [export EXCEPT !.query = [kill(@, code) EXCEPT !.killTimers = @ - 1]]
    /\ UNCHANGED <<mapperVars, heap, pc, call, tool, listing, bridge>>

\* the process has ended and its pipes are closed: the close event
CloseEvent ==
    /\ export.query.proc = "exited"
    /\ export' = [export EXCEPT !.query = onClose(@)]
    /\ UNCHANGED <<mapperVars, heap, pc, call, tool, listing, bridge>>

\* the 10 s timer fires; nothing cancels it
TimeoutFires ==
    /\ export.query.timeout = "armed"
    /\ \E code \in KillCodes :
         export' = [export EXCEPT !.query = onTimeout(@, code)]
    /\ UNCHANGED <<mapperVars, heap, pc, call, tool, listing, bridge>>

\* the promise of queryMySQLMCP is settled: exportTableToStorage goes on
QuerySettles ==
    /\ export.at = "querying"
    /\ export.query.promise.state # "pending"
    /\ export' = AfterQuery(export)
    /\ UNCHANGED <<mapperVars, heap, pc, call, tool, listing, bridge>>

\* s3Client.send of the upload settles
UploadSettles ==
    /\ export.at = "uploading"
    /\ \E ok \in BOOLEAN : export' = AfterUpload(export, ok)
    /\ UNCHANGED <<mapperVars, heap, pc, call, tool, listing, bridge>>

NextExport ==
    \/ ExportInvoke
    \/ SpawnFails
    \/ StdoutData
    \/ ProcessExits
    \/ KillTimerFires
    \/ CloseEvent
    \/ TimeoutFires
    \/ QuerySettles
    \/ UploadSettles

SpecExport == Init /\ [][NextExport]_vars

\* the event loop runs a timer that is due: the 10 s timer does fire
SpecExportFair == SpecExport /\ WF_vars(TimeoutFires)

-----------------------------------------------------------------------------
(* The list_directory tool: the tree does not change while it is listed.    *)

\* the handler calls listDirectory(args) and awaits its result
ListDirectory ==
    /\ listing.at = "idle"
    /\ \E params \in ListDirParams : listing' = listDirectory(params)
    /\ UNCHANGED <<mapperVars, heap, pc, call, tool, export, bridge>>

\* the handler answers the request
ListRespond ==
    /\ listing.at = "done"
    /\ listing' = NoListing
    /\ UNCHANGED <<mapperVars, heap, pc, call, tool, export, bridge>>

NextList ==
    \/ ListDirectory
    \/ ListRespond

SpecList == Init /\ [][NextList]_vars

-----------------------------------------------------------------------------
(* The HTTP bridge on the event loop: express runs the handlers of several  *)
(* requests, interleaved at their awaits.                                   *)

\* POST /api/chat arrives
ChatRequest ==
    /\ \E r \in 1..MaxRequests, messagesValid \in BOOLEAN :
         /\ bridge[r].at = "idle"
         /\ bridge' = [bridge EXCEPT ![r] = chat(messagesValid)]
    /\ UNCHANGED <<mapperVars, heap, pc, call, tool, export, listing>>

\* POST /api/list-buckets arrives: the handler runs to the await of
\* experimental_createMCPClient
ListBucketsRequest ==
    /\ \E r \in 1..MaxRequests :
         /\ bridge[r].at = "idle"
         /\ bridge' = [bridge EXCEPT ![r] = [NoRequest EXCEPT !.route = "list",
                                                              !.at = "connecting"]]
    /\ UNCHANGED <<mapperVars, heap, pc, call, tool, export, listing>>

\* experimental_createMCPClient settles: the client is connected, or it throws
ClientSettles ==
    /\ \E r \in 1..MaxRequests, ok \in BOOLEAN :
         /\ bridge[r].at = "connecting"
         /\ bridge' = [bridge EXCEPT ![r] = AfterClient(@, ok)]
    /\ UNCHANGED <<mapperVars, heap, pc, call, tool, export, listing>>

\* mcpClient.tools() settles: the tools, or it throws
ToolsSettle ==
    /\ \E r \in 1..MaxRequests, ok \in BOOLEAN :
         /\ bridge[r].at = "tools"
         /\ bridge' = [bridge EXCEPT ![r] = AfterTools(@, ok)]
    /\ UNCHANGED <<mapperVars, heap, pc, call, tool, export, listing>>

\* the stream gives a chunk: res.write(chunk), or fullText += textPart
StreamChunk ==
    /\ \E r \in 1..MaxRequests :
         /\ bridge[r].stream = "running"
         /\ bridge[r].chunks < MaxChunks
         /\ bridge' = [bridge EXCEPT ![r].chunks = @ + 1]
    /\ UNCHANGED <<mapperVars, heap, pc, call, tool, export, listing>>

\* the model's answer is complete
StreamFinishes ==
    /\ \E r \in 1..MaxRequests :
         /\ bridge[r].stream = "running"
         /\ bridge' = [bridge EXCEPT ![r] = StreamEnds(@, "finished")]
    /\ UNCHANGED <<mapperVars, heap, pc, call, tool, export, listing>>

\* calling the model or streaming its answer fails
StreamFails ==
    /\ \E r \in 1..MaxRequests :
         /\ bridge[r].stream = "running"
         /\ bridge' = [bridge EXCEPT ![r] = StreamEnds(@, "errored")]
    /\ UNCHANGED <<mapperVars, heap, pc, call, tool, export, listing>>

\* the handler leaves its for await loop and answers
LoopEnds ==
    /\ \E r \in 1..MaxRequests :
         /\ bridge[r].at = "streaming"
         /\ bridge[r].stream \in {"finished", "errored"}
         /\ bridge' = [bridge EXCEPT ![r] = AfterLoop(@)]
    /\ UNCHANGED <<mapperVars, heap, pc, call, tool, export, listing>>

NextBridge ==
    \/ ChatRequest
    \/ ListBucketsRequest
    \/ ClientSettles
    \/ ToolsSettle
    \/ StreamChunk
    \/ StreamFinishes
    \/ StreamFails
    \/ LoopEnds

SpecBridge == Init /\ [][NextBridge]_vars

-----------------------------------------------------------------------------
(* What the properties below speak of. *)

\* a mapParameters call has returned or thrown, and its outcome is in `call`
IsMapCall == pc = "returned" /\ call.op = "mapParameters"
\* the same for a call with the one-entry input {k: v}
IsSingleMap == IsMapCall /\ Len(call.input) = 1
InKey == call.input[1][1]
InValue == call.input[1][2]
NonNull(v) == v # Null /\ v # Undefined
Returns(fields) == [kind |-> "return", value |-> Obj(fields)]
\* the own properties of the map returned
Out == call.outcome.value.v

\* a known key: an entry of the mapping table
Known(k) == k \in DOMAIN knownMappings
\* a target path of one segment: a key name without a dot
FlatTarget(T) == T # "" /\ ~StrIncludes(T, ".")
InDate(T) == ArrIncludes(dateParameters, T)
InBoolean(T) == ArrIncludes(booleanParameters, T)
StrictBoolean(v) == Bool(v = Bool(TRUE) \/ v = Str("true"))

-----------------------------------------------------------------------------
(* C1: for a known key k whose target T is a single segment in neither      *)
(* conversion registry and a value v that is not null/undefined (false, 0   *)
(* and "" included), mapParameters({k: v}) returns exactly {T: v}.          *)
C1_FlatPassThrough ==
    (/\ IsSingleMap
     /\ Known(InKey)
     /\ FlatTarget(knownMappings[InKey])
     /\ ~InDate(knownMappings[InKey])
     /\ ~InBoolean(knownMappings[InKey])
     /\ NonNull(InValue))
    => call.outcome = Returns(knownMappings[InKey] :> InValue)

\* mapParameters({bucketName: false}) has returned {Bucket: false}
C1_Witness ==
    /\ IsSingleMap
    /\ call.input = << <<"bucketName", Bool(FALSE)>> >>
    /\ call.outcome = Returns("Bucket" :> Bool(FALSE))

(* C2: for a known key k whose target is a two-segment path P.C and a       *)
(* non-null v, mapParameters({k: v}) returns exactly {P: {C: v}} with v     *)
(* unconverted, also when C or P.C is in a conversion registry.             *)
C2_NestedUnconverted ==
    (/\ IsSingleMap
     /\ Known(InKey)
     /\ Len(split(knownMappings[InKey], ".")) = 2
     /\ NonNull(InValue))
    => LET parts == split(knownMappings[InKey], ".")
       IN  call.outcome = Returns(parts[1] :> Obj(parts[2] :> InValue))

\* after addMapping("newParam", "Bucket.Expires", "date"), whose child Expires and
\* whose whole path are date-registered, mapParameters({newParam: "2024-01-01"})
\* has returned {Bucket: {Expires: "2024-01-01"}}
C2_Witness ==
    /\ IsSingleMap
    /\ call.input = << <<"newParam", Str("2024-01-01")>> >>
    /\ Known("newParam")
    /\ knownMappings["newParam"] = "Bucket.Expires"
    /\ InDate("Expires") /\ InDate("Bucket.Expires")
    /\ call.outcome = Returns("Bucket" :> Obj("Expires" :> Str("2024-01-01")))

(* C6: for a known key k with a single-segment target T and a non-null v,   *)
(* mapParameters({k: v}) stores at T what convertType(T, v) gives: a Date   *)
(* (for "2024-01-01" the timestamp of 2024-01-01T00:00Z, day 19723 of the   *)
(* epoch) when T is date-registered; else the strict boolean when T is      *)
(* boolean-registered; else v itself. The registries are taken in the order *)
(* convertType tests them.                                                  *)
C6_FlatConverted ==
    (/\ IsSingleMap
     /\ Known(InKey)
     /\ FlatTarget(knownMappings[InKey])
     /\ NonNull(InValue))
    => LET T == knownMappings[InKey] IN
       /\ call.outcome.kind = "return"
       /\ DOMAIN Out = {T}
       /\ InDate(T) =>
            /\ Out[T].t = "Date"
            /\ InValue = Str("2024-01-01") => Out[T] = DateObj(TRUE, 19723, 0)
       /\ (~InDate(T) /\ InBoolean(T)) => Out[T] = StrictBoolean(InValue)
       /\ (~InDate(T) /\ ~InBoolean(T)) => Out[T] = InValue

\* mapParameters({objectLockEnabledForBucket: "2024-01-01"}) has returned
\* {ObjectLockEnabledForBucket: false} while the key is boolean-registered only
C6_Witness ==
    /\ IsSingleMap
    /\ call.input = << <<"objectLockEnabledForBucket", Str("2024-01-01")>> >>
    /\ ~InDate("ObjectLockEnabledForBucket")
    /\ call.outcome = Returns("ObjectLockEnabledForBucket" :> Bool(FALSE))

\* the entries of an input that mapParameters does not skip
RECURSIVE NonNullEntries(_)
NonNullEntries(input) ==
    IF input = <<>> THEN <<>>
    ELSE IF NonNull(Head(input)[2])
         THEN <<Head(input)>> \o NonNullEntries(Tail(input))
         ELSE NonNullEntries(Tail(input))

\* the top-level output keys an entry with key k can write
DerivedKeys(k) ==
    IF Known(k) /\ knownMappings[k] # ""
    THEN LET parts == split(knownMappings[k], ".")
         IN  IF Len(parts) = 1 THEN {knownMappings[k]}
             ELSE IF Len(parts) = 2 THEN {parts[1]} ELSE {}
    ELSE {smartCaseConversion(k)}

(* C7: an entry whose value is null or undefined is dropped: the outcome is *)
(* that of the input without these entries, and the output holds no target, *)
(* nested parent or fallback key of such an entry unless another entry,     *)
(* with a value, writes that key.                                           *)
C7_NullDropped ==
    IsMapCall =>
      /\ call.outcome = mapParameters(Self, NonNullEntries(call.input), FreshHeap).outcome
      /\ call.outcome.kind = "return" =>
           \A i \in 1..Len(call.input) :
              ~NonNull(call.input[i][2]) =>
                 \A key \in DerivedKeys(call.input[i][1]) \cap DOMAIN Out :
                    \E j \in 1..Len(call.input) :
                       /\ NonNull(call.input[j][2])
                       /\ key \in DerivedKeys(call.input[j][1])

\* mapParameters({bucketName: null, newParam: "true"}) has returned
\* {NewParam: "true"}: nothing at Bucket
C7_Witness ==
    /\ IsMapCall
    /\ call.input = << <<"bucketName", Null>>, <<"newParam", Str("true")>> >>
    /\ call.outcome = Returns("NewParam" :> Str("true"))

-----------------------------------------------------------------------------
(* C3: for a key k that is not in the mapping table and a non-null v,       *)
(* mapParameters({k: v}) returns the one flat entry {fallback(k): v}, where *)
(* fallback(k) is k with its first character upper-cased.                   *)
C3_UnknownFallback ==
    (/\ IsSingleMap
     /\ ~Known(InKey)
     /\ NonNull(InValue))
    => call.outcome = Returns(smartCaseConversion(InKey) :> InValue)

\* a convertType call has returned
IsConvertCall == pc = "returned" /\ call.op = "convertType"

(* C4: for every target key T in the boolean registry, convertType(T, v) is *)
(* true iff v is the boolean true or the string "true", and false for every *)
(* other v.                                                                 *)
C4_StrictBoolean ==
    (IsConvertCall /\ InBoolean(call.key))
    => call.outcome = [kind |-> "return", value |-> StrictBoolean(call.value)]

(* C5: for a date-registered target T, convertType(T, "not-a-date") raises  *)
(* an error, and mapParameters with a known key mapped to T and that value  *)
(* raises it to its caller instead of returning.                            *)
C5_BadDateRaises ==
    /\ (IsConvertCall /\ InDate(call.key) /\ call.value = Str("not-a-date"))
       => call.outcome.kind = "throw"
    /\ (/\ IsSingleMap
        /\ Known(InKey)
        /\ FlatTarget(knownMappings[InKey])
        /\ InDate(knownMappings[InKey])
        /\ InValue = Str("not-a-date"))
       => call.outcome.kind = "throw"

\* a step in which mapParameters runs: a first call, or the repeated one
MapStep ==
    \/ pc = "idle" /\ pc' = "returned" /\ call'.op = "mapParameters"
    \/ call.op = "mapParameters" /\ call.again = NoOutcome /\ call'.again # NoOutcome

(* C8: mapParameters is pure: a call leaves knownMappings, dateParameters,  *)
(* booleanParameters and the input map (its nested objects included)        *)
(* unchanged, and a second call with the same input, no addMapping between, *)
(* gives the outcome of the first.                                          *)
C8_Pure ==
    [][MapStep =>
         /\ knownMappings' = knownMappings
         /\ dateParameters' = dateParameters
         /\ booleanParameters' = booleanParameters
         /\ heap' = heap
         /\ call'.again # NoOutcome => call'.again = call'.outcome]_vars

\* a key the table does not hold and Object.prototype does not answer for
Unknown(k) == ~Known(k) /\ k \notin ObjectPrototypeKeys

(* C9: when a known key with flat target T and an unknown key whose         *)
(* fallback is T are both in one input, the output holds at T the value of  *)
(* the entry that comes later in the input's key order.                     *)
C9_LastWriteWins ==
    (/\ IsMapCall
     /\ Len(call.input) = 2
     /\ NonNull(call.input[1][2]) /\ NonNull(call.input[2][2])
     /\ \E a, b \in 1..2 :
          /\ a # b
          /\ Known(call.input[a][1])
          /\ FlatTarget(knownMappings[call.input[a][1]])
          /\ Unknown(call.input[b][1])
          /\ smartCaseConversion(call.input[b][1]) = knownMappings[call.input[a][1]])
    => /\ call.outcome.kind = "return"
       /\ LET k == call.input[2][1]
              v == call.input[2][2]
          IN  IF Known(k)
              THEN Out[knownMappings[k]] = convertType(Self, knownMappings[k], v)
              ELSE Out[smartCaseConversion(k)] = v

\* no entry of the input goes through the date conversion
NoDateEntry(input) ==
    \A i \in 1..Len(input) :
        Known(input[i][1]) => ~InDate(knownMappings[input[i][1]])

(* C10: mapParameters is total: in every table state and for every input    *)
(* map (empty, the empty key, unknown or colliding keys, names such as      *)
(* "constructor") whose values meet no date conversion, the call returns an *)
(* output map and does not raise.                                           *)
C10_Total ==
    (IsMapCall /\ NoDateEntry(call.input)) => call.outcome.kind = "return"

-----------------------------------------------------------------------------
(* C11: after addMapping(s, T, "boolean") with a single-segment T, whatever *)
(* addMapping calls came before, mapParameters({s: v}) with a non-null v    *)
(* returns {T: b}, b the strict boolean of v (true iff v is true or         *)
(* "true").                                                                 *)
C11_AddBoolean ==
    (/\ IsSingleMap
     /\ lastAdd.type = "boolean"
     /\ FlatTarget(lastAdd.pascalCase)
     /\ InKey = lastAdd.camelCase
     /\ NonNull(InValue))
    => call.outcome = Returns(lastAdd.pascalCase :> StrictBoolean(InValue))

\* the first segment of a target path: the top-level key it writes
FirstSegment(t) == split(t, ".")[1]

(* C12: after addMapping(s, t), for any two strings, s is a known key with  *)
(* target t, and mapParameters({s: v}) with a non-null v returns a map that *)
(* holds v at t, through the table, and nothing at the heuristic key        *)
(* fallback(s).                                                             *)
C12_AddMakesKnown ==
    (/\ IsSingleMap
     /\ lastAdd.type # "never"
     /\ InKey = lastAdd.camelCase
     /\ NonNull(InValue))
    => /\ Known(InKey)
       /\ knownMappings[InKey] = lastAdd.pascalCase
       /\ call.outcome.kind = "return"
       /\ FirstSegment(lastAdd.pascalCase) \in DOMAIN Out
       /\ smartCaseConversion(InKey) # FirstSegment(lastAdd.pascalCase)
            => smartCaseConversion(InKey) \notin DOMAIN Out

(* C13: in every reachable state every target path of knownMappings has one *)
(* segment or exactly two dot-separated segments.                           *)
C13_TargetShape ==
    \A k \in DOMAIN knownMappings : Len(split(knownMappings[k], ".")) \in {1, 2}

(* C14: in every reachable state no target key is in both dateParameters    *)
(* and booleanParameters.                                                   *)
C14_RegistriesDisjoint ==
    \A i \in 1..Len(dateParameters) : ~InBoolean(dateParameters[i])

\* the table and the registries are as the constructor left them
InitialTable ==
    /\ knownMappings = InitialMappings
    /\ dateParameters = InitialDateParameters
    /\ booleanParameters = InitialBooleanParameters

\* every key is known and no two entries have the same target
KnownDistinct(input) ==
    /\ \A i \in 1..Len(input) : Known(input[i][1])
    /\ \A i, j \in 1..Len(input) :
          i # j => knownMappings[input[i][1]] # knownMappings[input[j][1]]

\* the single-key results of the entries of an input, put together
RECURSIVE UnionOfSingles(_)
UnionOfSingles(input) ==
    IF input = <<>> THEN <<>>
    ELSE Assign(mapParameters(Self, <<Head(input)>>, FreshHeap).outcome.value.v,
                UnionOfSingles(Tail(input)))

\* the four parameters of the bucket-creation example, in some order
IsExample(input) ==
    Len(input) = 4 /\ \A i \in 1..4 : input[i] \in ExampleEntries

ExampleOutput ==
       "Bucket" :> Str("logs")
    @@ "ACL" :> Str("private")
    @@ "CreateBucketConfiguration" :> Obj("LocationConstraint" :> Str("eu-west-1"))
    @@ "ObjectLockEnabledForBucket" :> Bool(TRUE)

(* C15: with the constructor's table, an input of known keys with pairwise  *)
(* distinct targets maps to the union of its single-key results, whatever   *)
(* the key order; {bucketName: "logs", acl: "private", locationConstraint:  *)
(* "eu-west-1", objectLockEnabledForBucket: "true"} gives exactly {Bucket:  *)
(* "logs", ACL: "private", CreateBucketConfiguration: {LocationConstraint:  *)
(* "eu-west-1"}, ObjectLockEnabledForBucket: true}.                         *)
C15_UnionOfSingles ==
    (IsMapCall /\ InitialTable /\ KnownDistinct(call.input))
    => /\ call.outcome = Returns(UnionOfSingles(call.input))
       /\ IsExample(call.input) => call.outcome = Returns(ExampleOutput)

\* the example, given with its keys in the reverse order, has returned the
\* example's output
C15_Witness ==
    /\ IsMapCall
    /\ InitialTable
    /\ call.input = << <<"objectLockEnabledForBucket", Str("true")>>,
                       <<"locationConstraint", Str("eu-west-1")>>,
                       <<"acl", Str("private")>>,
                       <<"bucketName", Str("logs")>> >>
    /\ call.outcome = Returns(ExampleOutput)

(* C16: the mandatory identifiers survive: for every input that holds       *)
(* bucketName = b with b non-null, among any other entries, the output has  *)
(* Bucket equal to b; and fileName = f gives Key equal to f.                *)
C16_IdentifiersSurvive ==
    IsMapCall =>
      \A i \in 1..Len(call.input) :
         /\ (call.input[i][1] = "bucketName" /\ NonNull(call.input[i][2]))
              => /\ call.outcome.kind = "return"
                 /\ "Bucket" \in DOMAIN Out
                 /\ Out["Bucket"] = call.input[i][2]
         /\ (call.input[i][1] = "fileName" /\ NonNull(call.input[i][2]))
              => /\ call.outcome.kind = "return"
                 /\ "Key" \in DOMAIN Out
                 /\ Out["Key"] = call.input[i][2]

\* the top-level output key the entry of key k writes
TopKey(k) ==
    IF Known(k) /\ knownMappings[k] # ""
    THEN FirstSegment(knownMappings[k])
    ELSE smartCaseConversion(k)

\* the output holds the entry {k: v}: at its flat table target, at its nested
\* parent.child location, or at its fallback key
Appears(k, v) ==
    \/ /\ Known(k)
       /\ FlatTarget(knownMappings[k])
       /\ knownMappings[k] \in DOMAIN Out
       /\ Out[knownMappings[k]] = convertType(Self, knownMappings[k], v)
    \/ /\ Known(k)
       /\ Len(split(knownMappings[k], ".")) = 2
       /\ LET parts == split(knownMappings[k], ".") IN
          /\ parts[1] \in DOMAIN Out
          /\ \/ /\ Out[parts[1]].t = "object"
                /\ parts[2] \in DOMAIN Out[parts[1]].v
                /\ Out[parts[1]].v[parts[2]] = v
             \/ /\ Out[parts[1]].t = "ref"
                /\ parts[2] \in DOMAIN heap[Out[parts[1]].v]
                /\ heap[Out[parts[1]].v][parts[2]] = v
    \/ /\ smartCaseConversion(k) \in DOMAIN Out
       /\ Out[smartCaseConversion(k)] = v

(* C17: in every table state, every input entry whose value is not          *)
(* null/undefined and whose output key no other entry of the input produces *)
(* is in the output: at its table target, its nested parent.child location  *)
(* or its fallback key.                                                     *)
C17_Inclusion ==
    IsMapCall =>
      \A i \in 1..Len(call.input) :
         (/\ NonNull(call.input[i][2])
          /\ \A j \in 1..Len(call.input) :
                (j # i /\ NonNull(call.input[j][2]))
                => TopKey(call.input[j][1]) # TopKey(call.input[i][1]))
         => /\ call.outcome.kind = "return"
            /\ Appears(call.input[i][1], call.input[i][2])

-----------------------------------------------------------------------------
\* the calls the tool invocation in flight has made so far
Trace == tool.trace
IsMapEv(i) == Trace[i].ev = "map"
IsSendEv(i) == Trace[i].ev = "send"

(* C18: however addMapping and the tools' mapParameters calls interleave on *)
(* the shared singleton, no mapParameters call sees a half-applied          *)
(* addMapping: the new knownMappings entry without the registry entry of    *)
(* the same call.                                                           *)
C18_NoPartialTable ==
    \A i \in 1..Len(Trace) : IsMapEv(i) => ~Trace[i].partial

\* a tool that was started before an addMapping("newParam", "Bucket.Expires",
\* "date") called mapParameters after it, and the call saw both the table entry
\* and the registry entry
C18_Witness ==
    \E i \in 1..Len(Trace) :
       /\ IsMapEv(i)
       /\ Trace[i].adds > tool.adds
       /\ ~Trace[i].partial
       /\ lastAdd.type = "date"
       /\ Known(lastAdd.camelCase)
       /\ InDate(lastAdd.pascalCase)

\* the tools that validate their identifiers
Validating == {"createBucket", "deleteBucket", "getObject", "deleteObject", "putObject"}

\* bucketName (for getObject and deleteObject also fileName) is missing or empty
MissingIdentifier(t) ==
    /\ t.name \in Validating
    /\ \/ t.params = Undefined
       \/ ~Truthy(Prop(t.params.v, "bucketName"))
       \/ /\ t.name \in {"getObject", "deleteObject"}
          /\ ~Truthy(Prop(t.params.v, "fileName"))

(* C19: in createBucket, deleteBucket, getObject, deleteObject and          *)
(* putObject, when bucketName (or fileName, for getObject and deleteObject) *)
(* is missing or empty the tool returns a success:false result and calls    *)
(* neither mapParameters nor send; and on every path a send comes only      *)
(* after a mapParameters call has returned.                                 *)
C19_ValidateBeforeMap ==
    /\ MissingIdentifier(tool) =>
          /\ Trace = <<>>
          /\ tool.at # "idle" => tool.at = "done"
          /\ tool.at = "done" => (tool.result.kind = "return" /\ ~tool.result.success)
    /\ \A i \in 1..Len(Trace) :
          IsSendEv(i) => \E j \in 1..(i - 1) :
                           IsMapEv(j) /\ Trace[j].outcome.kind = "return"

(* C20: every storage tool (bucket create, delete and list, object put in   *)
(* each upload mode, object get and delete) hands to the storage command    *)
(* exactly the map mapParameters returned: no key added, removed or         *)
(* changed.                                                                 *)
C20_ForwardedVerbatim ==
    \A i \in 1..Len(Trace) :
       IsSendEv(i) => /\ i > 1
                      /\ IsMapEv(i - 1)
                      /\ Trace[i - 1].outcome.kind = "return"
                      /\ Trace[i].value = Trace[i - 1].outcome.value

\* the body of an upload of the file at path f: its text, or the Buffer of its
\* bytes when its extension is a binary one
FileBody(f) ==
    IF ArrIncludes(binaryExtensions, toLowerCase(extname(f)))
    THEN Buffer(DiskBase64[f])
    ELSE Str(DiskText[f])

(* C20, amended: every storage tool hands to the storage command the map    *)
(* mapParameters returned; only the uploads of a file read from the disk    *)
(* (putObject by filePath and by directoryPath) then set Body to the        *)
(* content of that file, a Buffer of its bytes for a binary file, and       *)
(* change no other key.                                                     *)
C20_ForwardedButBody ==
    \A i \in 1..Len(Trace) :
       IsSendEv(i) =>
          /\ i > 1
          /\ IsMapEv(i - 1)
          /\ Trace[i - 1].outcome.kind = "return"
          /\ IF Trace[i].file = ""
             THEN Trace[i].value = Trace[i - 1].outcome.value
             ELSE Trace[i].value =
                    Obj(Put(Trace[i - 1].outcome.value.v, "Body", FileBody(Trace[i].file)))

\* the upload of the binary file /d/s/b.png: mapParameters returned the base64
\* text as Body, and the command was sent with the Buffer
C20_Witness ==
    \E i \in 2..Len(Trace) :
       /\ IsSendEv(i)
       /\ Trace[i].file = "/d/s/b.png"
       /\ Trace[i - 1].outcome.value.v["Body"] = Str("UE5H")
       /\ Trace[i].value.v["Body"] = Buffer("UE5H")

-----------------------------------------------------------------------------
(* The export bridge, the directory listing, the uploads and the HTTP       *)
(* bridge: claims C21 to C28; the mapper again: claims C29 and C30.         *)

\* exportTableToStorage has been called with `key` given and truthy
ExportCalled == export.at # "idle"
ExportGives(key) == Truthy(Prop(export.params.v, key))
\* the call leaves out the MySQL connection parameters
NoConnectionParams ==
    /\ ~HasKey(export.params.v, "mysqlDatabase")
    /\ ~HasKey(export.params.v, "mysqlHost")
\* queryMySQLMCP was called: the server was spawned
Queried == export.query.proc # "none"

\* C21: an export_table_to_storage call that gives tableName and bucketName
\* and leaves out every MySQL connection parameter passes validation and goes
\* on to query the MySQL bridge; it does not return a missing-parameter error.
C21_OnlyTableAndBucket ==
    (ExportCalled /\ ExportGives("tableName") /\ ExportGives("bucketName")
        /\ NoConnectionParams)
    => (Queried /\ export.result.message # "Error: mysqlDatabase is required. Specify which database to export from.")

\* putObject has been called with a parameter object
PutCalled == tool.name = "putObject" /\ tool.at # "idle" /\ tool.params # Undefined
PutGives(key) == HasKey(tool.params.v, key)
\* the scenario putObject chose: an error it returned itself, or the upload
\* function it called
Scenario ==
    CASE tool.result.message = "Error: bucketName is required." -> "no bucket"
      [] tool.result.message
           = "Error: Provide either fileContent+fileName, filePath, or directoryPath."
         -> "no input"
      [] tool.up.mode = "direct" \/ tool.result.message = "Direct upload error" -> "direct"
      [] OTHER -> tool.up.mode

\* C22: putObject selects exactly one scenario: without bucketName the
\* "bucketName is required" error; with fileName and fileContent both given
\* the direct-content upload; otherwise with filePath the single-file upload;
\* otherwise with directoryPath the directory upload; otherwise the "Provide
\* either fileContent+fileName, filePath, or directoryPath" error.
C22_OneScenario ==
    PutCalled =>
        Scenario =
            IF ~Truthy(Prop(tool.params.v, "bucketName")) THEN "no bucket"
            ELSE IF Truthy(Prop(tool.params.v, "fileName")) /\ PutGives("fileContent")
            THEN "direct"
            ELSE IF PutGives("filePath") THEN "single"
            ELSE IF PutGives("directoryPath") THEN "directory"
            ELSE "no input"

RECURSIVE MaxLevel(_)
\* the deepest level of an entry in `contents`, direct children being level 1
MaxLevel(contents) ==
    IF contents = <<>> THEN 0
    ELSE LET below == {MaxLevel(contents[i].contents) : i \in 1..Len(contents)}
         IN  1 + CHOOSE n \in below : \A k \in below : k <= n

\* a recursive listing has returned; the depth it was asked for
RecursiveListed ==
    /\ listing.at = "done"
    /\ listing.success
    /\ Prop(listing.params.v, "recursive") = Bool(TRUE)
AskedDepth ==
    IF Truthy(Prop(listing.params.v, "maxDepth")) THEN Prop(listing.params.v, "maxDepth").v
    ELSE DefaultMaxDepth

\* C23: a recursive listing with maxDepth d (3 when none is given) returns no
\* entry nested more than d levels below the requested directory, its direct
\* children being level 1.
C23_DepthBounded ==
    RecursiveListed => MaxLevel(listing.contents) <= AskedDepth

\* the promise of queryMySQLMCP and the closure it belongs to
Query == export.query
Promise == export.query.promise
\* the server ended by itself with a failure code
OwnFailure == Query.code # Undefined /\ Query.code # Num(0) /\ ~Query.killed
\* the rows of the result that was read
RowsRead ==
    JSONParse(JSONParse(trim(Query.responseData), JsonDocuments).value.content[1].text,
              JsonArrays).value

\* C24: when the server has written a complete, valid JSON-RPC result before
\* the 10-second timeout, queryMySQLMCP resolves with success: true and the
\* parsed rows, however the 100 ms kill timer, the exit of the process and the
\* close event interleave.
C24_ValidResultSucceeds ==
    (Promise.state = "fulfilled" /\ Query.timely /\ Query.timeout = "armed" /\ ~OwnFailure)
    => (Promise.value.success /\ Promise.value.rowCount = RowsRead)

\* one of the three events that call resolve has occurred
Closed == Query.proc = "closed"
SpawnError == Query.code = Num(-2)
TimedOut == Query.timeout = "fired"
Settled == Promise.state = "fulfilled"

\* C25: the promise of queryMySQLMCP never rejects and always eventually
\* settles, exactly once: the first of the close event, the spawn error event
\* and the 10-second timeout settles it, it is settled by no other step, and
\* no later event (the timeout after a close among them) changes its result.
C25_SettlesOnce ==
    /\ [](Promise.state \in {"pending", "fulfilled"})
    /\ []((Closed \/ SpawnError \/ TimedOut) => Settled)
    /\ [][(~Settled /\ Settled') => (Closed' \/ SpawnError' \/ TimedOut')]_vars
    /\ [][Settled => Promise' = Promise]_vars
    /\ (Queried ~> Settled)

\* the close event delivered the rows and the timeout fired afterwards
C25_Witness ==
    Settled /\ Closed /\ TimedOut /\ Promise.value.success

\* uploadDirectory has returned its summary
DirectoryDone ==
    tool.name = "putObject" /\ tool.up.mode = "directory" /\ tool.at = "done"
\* results.successful, results.failed and results.skipped, one after the other
Accounted == tool.up.successful \o tool.up.failed \o tool.up.skipped
Min(a, b) == IF a < b THEN a ELSE b

\* C26: uploadDirectory accounts for every selected file exactly once: of n
\* files found under the limit m (maxFiles, 100 by default) min(n, m) are
\* processed, each is in exactly one of successful, failed and skipped, a
\* failed file does not stop those after it, and success is true iff a file
\* was uploaded.
C26_EveryFileOnce ==
    DirectoryDone =>
        /\ Len(Accounted) = Min(tool.up.found, maxFiles(tool.params.v).v)
        /\ \A i, j \in 1..Len(Accounted) : i # j => Accounted[i] # Accounted[j]
        /\ {Accounted[i] : i \in 1..Len(Accounted)}
             = {tool.up.files[i] : i \in 1..Len(tool.up.files)}
        /\ tool.result.success <=> Len(tool.up.successful) > 0

\* the first file failed and the one after it was uploaded
C26_Witness ==
    /\ DirectoryDone
    /\ Len(tool.up.failed) = 1
    /\ Len(tool.up.successful) = 1
    /\ tool.up.failed[1] = tool.up.files[1]
    /\ tool.result.success

\* uploadSingleFile, called by putObject for params.filePath, has uploaded
SingleUploaded ==
    /\ tool.name = "putObject" /\ tool.up.mode = "single"
    /\ tool.at = "done" /\ tool.result.success
\* the parameters of the command that was sent
SentParams == Trace[Len(Trace)].value.v

\* C27: in uploadSingleFile the Key of the command sent to the storage equals
\* the s3Key of the returned uploadInfo, which is params.s3Key if given, else
\* params.fileName, else the base name of filePath, whichever of s3Key and
\* fileName the caller gives.
C27_KeyIsReportedKey ==
    SingleUploaded =>
        /\ tool.result.s3Key
             = Or(Or(Prop(tool.params.v, "s3Key"), Prop(tool.params.v, "fileName")),
                  Str(basename(Prop(tool.params.v, "filePath").v)))
        /\ Get(SentParams, "Key") = tool.result.s3Key

\* the handler of request r has answered and no callback of its stream is
\* still to come
Finished(r) == bridge[r].at = "done" /\ bridge[r].stream # "running"

\* C28: every MCP client the HTTP bridge creates while handling /api/chat or
\* /api/list-buckets is closed in the end on every path, those where listing
\* the tools, calling the model or streaming the answer throws included: once
\* the handler has answered and its stream is over, the client is not open.
C28_ClientsClosed ==
    \A r \in 1..MaxRequests : Finished(r) => bridge[r].client # "open"

\* a step that is a call of addMapping, and its arguments
AddStep == adds' = adds + 1
\* what mapParameters(input) gives under the table `self`: its outcome and
\* the caller's objects after it
MapOf(self, input) ==
    LET r == mapParameters(self, input, FreshHeap) IN <<r.outcome, r.heap>>
\* the targets the table gives the keys of `input`
TargetsOf(input) ==
    {knownMappings[input[i][1]] : i \in {j \in 1..Len(input) : Known(input[j][1])}}

\* C29: addMapping(s, t, kind) changes the mapper only for the source key s:
\* for every input without the key s, mapParameters returns the same right
\* before and right after the call.
C29_OnlySourceKey ==
    [][AddStep =>
         \A input \in Inputs :
            ~HasKey(input, lastAdd'.camelCase)
            => MapOf(Self, input) = MapOf(Self', input)]_vars

\* C29 as amended: the same for every input that has neither the key s nor a
\* known key whose target is t.
C29_OnlySourceAndTarget ==
    [][AddStep =>
         \A input \in Inputs :
            (~HasKey(input, lastAdd'.camelCase)
                /\ lastAdd'.pascalCase \notin TargetsOf(input))
            => MapOf(Self, input) = MapOf(Self', input)]_vars

\* after addMapping("newParam", "Bucket", "boolean") an input with a known
\* key of another target is mapped as the constructor's table maps it
C29_Witness ==
    /\ IsMapCall
    /\ lastAdd.pascalCase = "Bucket" /\ lastAdd.type = "boolean"
    /\ ~HasKey(call.input, lastAdd.camelCase)
    /\ \E i \in 1..Len(call.input) :
          Known(call.input[i][1]) /\ knownMappings[call.input[i][1]] = "Expires"
    /\ call.outcome
         = mapParameters([knownMappings |-> InitialMappings,
                          dateParameters |-> InitialDateParameters,
                          booleanParameters |-> InitialBooleanParameters],
                         call.input, FreshHeap).outcome

\* C30: in every map mapParameters returns, in every state of the table, the
\* value at a top-level key of the boolean registry is a strict boolean and
\* the value at a top-level key of the date registry is a timestamp, whether
\* a known or an unknown input key produced that key.
C30_RegistryTyped ==
    (IsMapCall /\ call.outcome.kind = "return") =>
        \A T \in DOMAIN Out :
            /\ InBoolean(T) => Out[T].t = "boolean"
            /\ InDate(T) => Out[T].t = "Date"

=============================================================================
